---- MODULE Spec2Model ----
(***************************************************************************)
(* Model of the Autoboat primary controller node: the fault aggregator and *)
(* return-to-base (RTB) logic of Code/Primary_node/PrimaryNode.c and the   *)
(* MAVLink receive/transmit protocols of Code/basic_model/clib/mavlink.c.  *)
(*                                                                         *)
(* Conventions                                                             *)
(*  - A 16-bit flag word (nodeErrors, nodeStatus) is the set of the names  *)
(*    of its set bits: x |= B is x \cup {B}, x &= ~B is x \ {B}, x & M is  *)
(*    x \cap M, x != y is set inequality.                                  *)
(*  - The autonomous-mode flag is bit 0 of the status word: mavlink.c      *)
(*    writes it as systemStatus.status & 1, PrimaryNode.c reads it as      *)
(*    nodeStatus & PRIMARY_NODE_STATUS_AUTOMODE.  Both are nodeStatus here. *)
(*  - out is the list of messages and actuator commands the last step      *)
(*    emitted; op names the last step and its inputs.  They are history   *)
(*    variables, as are upload, rtbLog, modeSetByParam, paramLog,          *)
(*    countdownTicks, fell, enabledSeen and msg.                           *)
(***************************************************************************)
EXTENDS Integers, Sequences, FiniteSets, TLC

VARIABLES
    pc,                       \* position in the body of main()'s while (true)
    sensorAvailability,       \* sensorAvailability + rudderSensorData + GCS silence (inputs)
    lastSensorAvailability,   \* PrimaryNode.c:77
    nodeErrors,               \* fault bitmask (systemStatus.reset in mavlink.c)
    nodeStatus,               \* status bitmask (systemStatus.status in mavlink.c)
    lastErrorState,           \* PrimaryNode.c:254 (static of main)
    nodeSystemTime,           \* centiseconds since boot
    currentCommands,          \* PrimaryNode.c:99
    sayStatusCounter,         \* PrimaryNode.c:72
    parameterProtocolState,   \* mavlink.c:46
    currentParameter,         \* mavlink.c:45
    delayCountdown,           \* mavlink.c:380
    missionProtocolState,     \* mavlink.c:57
    currentMission,           \* mavlink.c:56
    missionProtocolRequestCounter, \* mavlink.c:381
    transients,               \* scheduler: FIFO of one-shot message ids
    schedTick,                \* scheduler: ticks since MavLinkInit
    mList,                    \* mission store: the stored items, in order
    currentMissionIndex,      \* mission store: current index, -1 when none
    mavlinkNewMissionListSize,\* mavlink.c:531
    out,                      \* history: what the last step emitted
    op,                       \* history: the last step and its inputs
    upload,                   \* history: the upload session in progress
    rtbLog,                   \* history: RTB notifications and episodes
    modeSetByParam,           \* history: a PARAM_SET has written MODE_AUTO
    paramLog,                 \* history: the parameter request being served
    countdownTicks,           \* history: invocations spent in the list countdown
    fell,                     \* history: active signals seen to go from true to false
    enabledSeen,              \* history: enabled signals sampled true at some pass
    groundStationSystemId,    \* mavlink.c:25
    groundStationComponentId, \* mavlink.c:26
    msg                       \* history: system and component id of the last message parsed

vars == <<pc, sensorAvailability, lastSensorAvailability, nodeErrors, nodeStatus,
          lastErrorState, nodeSystemTime, currentCommands, sayStatusCounter,
          parameterProtocolState, currentParameter, delayCountdown,
          missionProtocolState, currentMission, missionProtocolRequestCounter,
          transients, schedTick, mList, currentMissionIndex,
          mavlinkNewMissionListSize, out, op, upload, rtbLog,
          modeSetByParam, paramLog, countdownTicks, fell, enabledSeen,
          groundStationSystemId, groundStationComponentId, msg>>

(***************************************************************************)
(* Bounds of the model                                                     *)
(***************************************************************************)
\* Capacity of the mission store (mList.maxSize).
MaxMissions == 2
\* Number of distinct mission items the ground station may send.
NumItems == 2
\* 100 Hz ticks explored from boot.
MaxTicks == 2
\* 100 Hz ticks explored from boot when the parameter protocol is followed.
ParamTicks == 48
\* 100 Hz ticks explored from boot when the countdown of a mission download
\* is followed.
DownloadTicks == 24
\* 100 Hz ticks explored from boot when the items of a mission download are
\* followed.
ItemTicks == 3
\* The largest value of the system time counter: UINT32_MAX in the source,
\* scaled down to a value past the startup hold and the GPS timeout.
NodeSystemTimeMax == 1004
\* The GPS signal changes within this many ticks of boot or of the time
\* GPS_DISCONNECTION_TIME, when the timeout is followed.
GpsWindow == 2
\* Ticks of the main loop when the actuator output is followed past the
\* startup hold.
OutputTicks == 202
\* Ticks of the main loop when the transient queue is followed.
QueueTicks == 5
\* Ticks of the main loop when a repeated item request is followed.
RepeatTicks == 4
\* Ticks during which the ground station still sends mission messages and the
\* channel may defer a transient, when the end of a download is followed.
PeerTicks == 2
\* Ticks of the main loop when the end of a download is followed.
LiveTicks == 30

(***************************************************************************)
(* Program constants                                                       *)
(***************************************************************************)
STARTUP_RESET_TIME == 200
GCS_DISCONNECTION_TIME == 3000
GPS_DISCONNECTION_TIME == 1000
SAY_STATUS_COUNTER_LIMIT == 3000
parameterCount == 4

\* The flags of nodeErrors used by PrimaryNode.c.
ErrorBits ==
    {"STARTUP", "GPS_INVALID", "GPS_DISCONNECTED", "ESTOP_OR_ACS300_DISCON",
     "RUDDER_DISCONNECTED", "DST800_DISCONNECTED", "IMU_DISCONNECTED",
     "MANUAL_OVERRIDE", "RUDDER_ERRORS", "CALIBRATING", "UNCALIBRATED",
     "GCS_DISCONNECTED", "RTB"}

\* The flags that trigger return-to-base: the link-loss and rudder faults.
\* Neither the RTB flag itself nor the manual override is among them.
RTB_RESET_MASK ==
    {"GPS_DISCONNECTED", "ESTOP_OR_ACS300_DISCON", "RUDDER_DISCONNECTED",
     "DST800_DISCONNECTED", "IMU_DISCONNECTED", "RUDDER_ERRORS", "UNCALIBRATED",
     "GCS_DISCONNECTED"}

\* The names of the four parameters, by index (mavlink.c:261-300).
ParamNames == <<"MODE_AUTO", "MODE_HIL", "MODE_HILSENSE", "MODE_RCDISCON">>
\* The status bit each parameter reads and writes (bits 0..3).
ParamBits == <<"AUTOMODE", "HIL", "HILSENSE", "RCDISCON">>

Msg(t, a, b, c) == [t |-> t, a |-> a, b |-> b, c |-> c]
Op(n, a, b, c) == [name |-> n, a |-> a, b |-> b, c |-> c]

IS_AUTONOMOUS(status) == "AUTOMODE" \in status

(***************************************************************************)
(* The output mux (PrimaryNode.c:752-781)                                  *)
(***************************************************************************)
\* PrimaryNode.c:936-947: 8% deadband, then 70% scaling; C's division
\* truncates toward zero.
ProcessManualThrottleCommand(tc) ==
    LET d == IF tc > -40 /\ tc < 40 THEN 0 ELSE tc
        p == d * 7
    IN  IF p < 0 THEN -((-p) \div 10) ELSE p \div 10

\* The output mux with an autonomous command that faults do not hold back.
PrimaryNodeMuxAndOutputControllerCommands_NoGate(rudderCommand, force, manRc, manTcRaw, status, errors, cmds) ==
    LET manTc == ProcessManualThrottleCommand(manTcRaw)
        c2 == [cmds EXCEPT !.primaryManualRudderCommand = manRc,
                           !.primaryManualThrottleCommand = manTc,
                           !.autonomousRudderCommand = rudderCommand,
                           !.autonomousThrottleCommand = manTc]
    IN  [cmds |-> c2,
         out |-> IF IS_AUTONOMOUS(status)
                 THEN <<Msg("ACTUATORS", c2.autonomousRudderCommand,
                            c2.autonomousThrottleCommand, force)>>
                 ELSE IF "MANUAL_OVERRIDE" \notin errors
                 THEN <<Msg("ACTUATORS", c2.primaryManualRudderCommand,
                            c2.primaryManualThrottleCommand, force)>>
                 ELSE <<>>]

\* The output mux with a transmission that is never forced.
PrimaryNodeMuxAndOutputControllerCommands_NoForce(rudderCommand, force, manRc, manTcRaw, status, errors, cmds) ==
    LET manTc == ProcessManualThrottleCommand(manTcRaw)
        c2 == [cmds EXCEPT !.primaryManualRudderCommand = manRc,
                           !.primaryManualThrottleCommand = manTc,
                           !.autonomousRudderCommand = rudderCommand,
                           !.autonomousThrottleCommand = manTc]
    IN  [cmds |-> c2,
         out |-> IF IS_AUTONOMOUS(status) /\ errors = {}
                 THEN <<Msg("ACTUATORS", c2.autonomousRudderCommand,
                            c2.autonomousThrottleCommand, 0)>>
                 ELSE IF ~IS_AUTONOMOUS(status) /\ "MANUAL_OVERRIDE" \notin errors
                 THEN <<Msg("ACTUATORS", c2.primaryManualRudderCommand,
                            c2.primaryManualThrottleCommand, 0)>>
                 ELSE <<>>]

\* manRc is the binned manual rudder command (the result of
\* ProcessManualRudderCommand), manTcRaw the raw manual throttle.  Returns
\* the updated currentCommands and the actuator commands transmitted.
PrimaryNodeMuxAndOutputControllerCommands(rudderCommand, force, manRc, manTcRaw, status, errors, cmds) ==
    LET manTc == ProcessManualThrottleCommand(manTcRaw)
        c2 == [cmds EXCEPT !.primaryManualRudderCommand = manRc,
                           !.primaryManualThrottleCommand = manTc,
                           !.autonomousRudderCommand = rudderCommand,
                           !.autonomousThrottleCommand = manTc]
    IN  [cmds |-> c2,
         out |-> IF IS_AUTONOMOUS(status) /\ errors = {}
                 THEN <<Msg("ACTUATORS", c2.autonomousRudderCommand,
                            c2.autonomousThrottleCommand, force)>>
                 ELSE IF ~IS_AUTONOMOUS(status) /\ "MANUAL_OVERRIDE" \notin errors
                 THEN <<Msg("ACTUATORS", c2.primaryManualRudderCommand,
                            c2.primaryManualThrottleCommand, force)>>
                 ELSE <<>>]

\* GetCurrentActuatorCommands (PrimaryNode.c:1026-1048): the command the
\* node reports as driving the boat.
GetCurrentActuatorCommands(status, errors, cmds) ==
    IF "MANUAL_OVERRIDE" \in errors
    THEN [rudderAngle |-> cmds.secondaryManualRudderCommand,
          throttle |-> cmds.secondaryManualThrottleCommand]
    ELSE IF errors = {}
    THEN (IF IS_AUTONOMOUS(status)
          THEN [rudderAngle |-> cmds.autonomousRudderCommand,
                throttle |-> cmds.autonomousThrottleCommand]
          ELSE [rudderAngle |-> cmds.primaryManualRudderCommand,
                throttle |-> cmds.primaryManualThrottleCommand])
    ELSE [rudderAngle |-> 0, throttle |-> 0]

(***************************************************************************)
(* The fault aggregator: the first part of the body of main()'s loop       *)
(* (PrimaryNode.c:262-436)                                                 *)
(***************************************************************************)
\* EdgeBit with a bit that the falling edge leaves as it is.
EdgeBit_NoSet(x, lastv, curv, bit) ==
    IF ~lastv /\ curv THEN x \ {bit}
    ELSE x

\* EdgeBit with a bit that the rising edge leaves as it is.
EdgeBit_NoClear(x, lastv, curv, bit) ==
    IF lastv /\ ~curv THEN x \cup {bit}
    ELSE x

\* EdgeBit with a bit that follows the level of the signal.
EdgeBit_Level(x, lastv, curv, bit) ==
    IF ~curv THEN x \cup {bit}
    ELSE x \ {bit}

\* if (last && !cur) x |= bit; else if (!last && cur) x &= ~bit;
EdgeBit(x, lastv, curv, bit) ==
    IF lastv /\ ~curv THEN x \cup {bit}
    ELSE IF ~lastv /\ curv THEN x \ {bit}
    ELSE x

\* TrackBit with a bit that stays set once it is set.
TrackBit_NoClear(x, bit, clr, set) ==
    IF bit \in x THEN x
    ELSE (IF set THEN x \cup {bit} ELSE x)

\* if (x & bit) { if (clr) x &= ~bit; } else { if (set) x |= bit; }
TrackBit(x, bit, clr, set) ==
    IF bit \in x THEN (IF clr THEN x \ {bit} ELSE x)
    ELSE (IF set THEN x \cup {bit} ELSE x)

\* RcActiveEdge with an override that does not need the RC node enabled.
RcActiveEdge_NoGuard(e, lastActive, enabled, active) ==
    IF lastActive /\ ~active
    THEN [errors |-> e \ {"MANUAL_OVERRIDE"}, last |-> FALSE, fell |-> TRUE]
    ELSE IF ~lastActive /\ active
    THEN [errors |-> e \cup {"MANUAL_OVERRIDE"}, last |-> TRUE, fell |-> FALSE]
    ELSE [errors |-> e, last |-> lastActive, fell |-> FALSE]

\* PrimaryNode.c:376-391: the manual override follows the active flag of the
\* RC node; fell tells that the override has just ended.
RcActiveEdge(e, lastActive, enabled, active) ==
    IF lastActive /\ ~active
    THEN [errors |-> e \ {"MANUAL_OVERRIDE"}, last |-> FALSE, fell |-> TRUE]
    ELSE IF enabled /\ ~lastActive /\ active
    THEN [errors |-> e \cup {"MANUAL_OVERRIDE"}, last |-> TRUE, fell |-> FALSE]
    ELSE [errors |-> e, last |-> lastActive, fell |-> FALSE]

\* RudderActiveEdge with a rising edge that clears the bit whether or not the
\* rudder is enabled.
RudderActiveEdge_NoGuard(e, lastActive, enabled, active) ==
    IF lastActive /\ ~active
    THEN [errors |-> e \cup {"RUDDER_ERRORS"}, last |-> FALSE]
    ELSE IF ~lastActive /\ active
    THEN [errors |-> e \ {"RUDDER_ERRORS"}, last |-> TRUE]
    ELSE [errors |-> e, last |-> lastActive]

\* PrimaryNode.c:397-404: the rudder error bit follows the edges of
\* rudder.active; the clearing edge is taken only while the rudder is enabled.
\* Returns nodeErrors and lastSensorAvailability.rudderActive.
RudderActiveEdge(e, lastActive, enabled, active) ==
    IF lastActive /\ ~active
    THEN [errors |-> e \cup {"RUDDER_ERRORS"}, last |-> FALSE]
    ELSE IF enabled /\ ~lastActive /\ active
    THEN [errors |-> e \ {"RUDDER_ERRORS"}, last |-> TRUE]
    ELSE [errors |-> e, last |-> lastActive]

\* s: the sensor availability read in this pass; l: lastSensorAvailability;
\* e: nodeErrors; st: nodeStatus; now: nodeSystemTime.
\* Returns the new nodeErrors, nodeStatus, lastSensorAvailability,
\* currentCommands and the actuator commands emitted.
AggregateFaults(s, l, e, st, now, cmds, manRc, manTcRaw) ==
    LET \* 264-283: ECAN peripheral errors
        st1 == TrackBit(TrackBit(st, "ECAN_TX_ERR", ~s.ecanTxErr, s.ecanTxErr),
                        "ECAN_RX_ERR", ~s.ecanRxErr, s.ecanRxErr)
        \* 292-299: GPS invalid
        e1 == EdgeBit(e, l.gpsActive, s.gpsActive, "GPS_INVALID")
        \* 301-310: GPS disconnected by timeout
        e2 == TrackBit(e1, "GPS_DISCONNECTED", s.gpsActive,
                       now - s.gpsLastActive >= GPS_DISCONNECTION_TIME)
        \* 311-317: the GPS-invalid block again; lastSensorAvailability.gpsActive
        \* already equals the sample, so neither branch is taken
        e3 == EdgeBit(e2, s.gpsActive, s.gpsActive, "GPS_INVALID")
        \* 319-326: ACS300
        e4 == EdgeBit(e3, l.propEnabled, s.propEnabled, "ESTOP_OR_ACS300_DISCON")
        \* 331-337: rudder node
        e5 == EdgeBit(e4, l.rudderEnabled, s.rudderEnabled, "RUDDER_DISCONNECTED")
        \* 343-349: RC node (a status flag, set on loss)
        st2 == EdgeBit(st1, l.rcNodeEnabled, s.rcNodeEnabled, "RC_NODE_DISCONNECTED")
        \* 354-360: DST800
        e6 == EdgeBit(e5, l.dst800Enabled, s.dst800Enabled, "DST800_DISCONNECTED")
        \* 364-370: IMU
        e7 == EdgeBit(e6, l.imuEnabled, s.imuEnabled, "IMU_DISCONNECTED")
        \* 376-391: manual override
        rc == RcActiveEdge(e7, l.rcNodeActive, s.rcNodeEnabled, s.rcNodeActive)
        rcFall == rc.fell
        e8 == rc.errors
        mux == IF rcFall
               THEN PrimaryNodeMuxAndOutputControllerCommands(
                        cmds.autonomousRudderCommand, 1, manRc, manTcRaw, st2, e8, cmds)
               ELSE [cmds |-> cmds, out |-> <<>>]
        rcLast == rc.last
        \* 397-404: rudder errors
        ru == RudderActiveEdge(e8, l.rudderActive, s.rudderEnabled, s.rudderActive)
        e9 == ru.errors
        ruLast == ru.last
        \* 407-425: rudder calibration
        e10 == TrackBit(e9, "CALIBRATING", ~s.Calibrating, s.Calibrating)
        e11 == TrackBit(e10, "UNCALIBRATED", s.Calibrated, ~s.Calibrated)
        \* 428-436: ground station silence
        e12 == TrackBit(e11, "GCS_DISCONNECTED",
                        s.gcsSilence < GCS_DISCONNECTION_TIME,
                        s.gcsSilence >= GCS_DISCONNECTION_TIME)
    IN  [errors |-> e12,
         status |-> st2,
         last |-> [gpsEnabled |-> s.gpsEnabled, gpsActive |-> s.gpsActive,
                   propEnabled |-> s.propEnabled, rudderEnabled |-> s.rudderEnabled,
                   rcNodeEnabled |-> s.rcNodeEnabled, dst800Enabled |-> s.dst800Enabled,
                   imuEnabled |-> s.imuEnabled, rcNodeActive |-> rcLast,
                   rudderActive |-> ruLast],
         cmds |-> mux.cmds,
         out |-> mux.out]

(***************************************************************************)
(* The RTB check at the end of the loop body (PrimaryNode.c:453-471)       *)
(***************************************************************************)
\* e: nodeErrors; les: lastErrorState; st: nodeStatus.
RtbCheck_NoLatch(e, les, st) ==
    IF e # les
    THEN LET rtbErrors == e \cap RTB_RESET_MASK
             engage == IS_AUTONOMOUS(st) /\ rtbErrors # {}
             e2 == IF engage THEN e \cup {"RTB"} ELSE e
         IN  [errors |-> e2, lastErrorState |-> e2,
              out |-> IF engage
                      THEN <<Msg("ACTUATORS", 0, 0, 1), Msg("STATUSTEXT_RTB", 0, 0, 0)>>
                      ELSE <<>>]
    ELSE [errors |-> e, lastErrorState |-> les, out |-> <<>>]

RtbCheck_OnlyOnAnnounce(e, les, st) ==
    IF e # les
    THEN LET rtbErrors == e \cap RTB_RESET_MASK
             announce == IS_AUTONOMOUS(st) /\ rtbErrors # {} /\ "RTB" \notin e
             e2 == IF announce THEN e \cup {"RTB"} ELSE e
         IN  [errors |-> e2, lastErrorState |-> e2,
              out |-> IF announce
                      THEN <<Msg("ACTUATORS", 0, 0, 1), Msg("STATUSTEXT_RTB", 0, 0, 0)>>
                      ELSE <<>>]
    ELSE [errors |-> e, lastErrorState |-> les, out |-> <<>>]

RtbCheck(e, les, st) ==
    IF e # les
    THEN LET rtbErrors == e \cap RTB_RESET_MASK
             engage == IS_AUTONOMOUS(st) /\ rtbErrors # {}
             announce == engage /\ "RTB" \notin e
             e2 == IF announce THEN e \cup {"RTB"} ELSE e
         IN  [errors |-> e2, lastErrorState |-> e2,
              out |-> (IF engage THEN <<Msg("ACTUATORS", 0, 0, 1)>> ELSE <<>>)
                      \o (IF announce THEN <<Msg("STATUSTEXT_RTB", 0, 0, 0)>> ELSE <<>>)]
    ELSE [errors |-> e, lastErrorState |-> les, out |-> <<>>]

(***************************************************************************)
(* SetAutoMode (PrimaryNode.c:850-882)                                     *)
(***************************************************************************)
\* MavLinkTransmitAllParameters(): a parameter stream request, accepted only
\* from the inactive state.
MavLinkTransmitAllParameters(ps) ==
    IF ps = "INACTIVE" THEN "STREAM_TRANSMIT_START" ELSE ps

\* newMode: "AUTONOMOUS" or "MANUAL".  Returns the new nodeStatus, nodeErrors,
\* sayStatusCounter, parameterProtocolState and the messages sent.
SetAutoMode_NoRtbGate(newMode, st, e, ssc, ps) ==
    IF newMode = "AUTONOMOUS" /\ ~IS_AUTONOMOUS(st)
    THEN [status |-> st \cup {"AUTOMODE"}, errors |-> e, sayStatusCounter |-> 0,
          paramState |-> MavLinkTransmitAllParameters(ps),
          out |-> <<Msg("HEARTBEAT", 0, 0, 0), Msg("HEARTBEAT", 1, 0, 0),
                    Msg("STATUSTEXT_AUDIO", 0, 0, 0), Msg("ALL_PARAMETERS", 0, 0, 0)>>]
    ELSE IF IS_AUTONOMOUS(st)
    THEN [status |-> st \ {"AUTOMODE"}, errors |-> e \ {"RTB"}, sayStatusCounter |-> ssc,
          paramState |-> ps,
          out |-> (IF "RTB" \in e THEN <<Msg("STATUSTEXT_EXIT_RTB", 0, 0, 0)>> ELSE <<>>)
                  \o <<Msg("HEARTBEAT", 0, 0, 0), Msg("HEARTBEAT", 1, 0, 0)>>]
    ELSE [status |-> st, errors |-> e, sayStatusCounter |-> ssc, paramState |-> ps,
          out |-> <<>>]

SetAutoMode_KeepRtb(newMode, st, e, ssc, ps) ==
    IF newMode = "AUTONOMOUS" /\ ~IS_AUTONOMOUS(st) /\ e \cap RTB_RESET_MASK = {}
    THEN [status |-> st \cup {"AUTOMODE"}, errors |-> e, sayStatusCounter |-> 0,
          paramState |-> MavLinkTransmitAllParameters(ps),
          out |-> <<Msg("HEARTBEAT", 0, 0, 0), Msg("HEARTBEAT", 1, 0, 0),
                    Msg("STATUSTEXT_AUDIO", 0, 0, 0), Msg("ALL_PARAMETERS", 0, 0, 0)>>]
    ELSE IF IS_AUTONOMOUS(st)
    THEN [status |-> st \ {"AUTOMODE"}, errors |-> e, sayStatusCounter |-> ssc,
          paramState |-> ps,
          out |-> <<Msg("HEARTBEAT", 0, 0, 0), Msg("HEARTBEAT", 1, 0, 0)>>]
    ELSE [status |-> st, errors |-> e, sayStatusCounter |-> ssc, paramState |-> ps,
          out |-> <<>>]

SetAutoMode(newMode, st, e, ssc, ps) ==
    IF newMode = "AUTONOMOUS" /\ ~IS_AUTONOMOUS(st) /\ e \cap RTB_RESET_MASK = {}
    THEN [status |-> st \cup {"AUTOMODE"}, errors |-> e, sayStatusCounter |-> 0,
          paramState |-> MavLinkTransmitAllParameters(ps),
          out |-> <<Msg("HEARTBEAT", 0, 0, 0), Msg("HEARTBEAT", 1, 0, 0),
                    Msg("STATUSTEXT_AUDIO", 0, 0, 0), Msg("ALL_PARAMETERS", 0, 0, 0)>>]
    ELSE IF IS_AUTONOMOUS(st)
    THEN [status |-> st \ {"AUTOMODE"}, errors |-> e \ {"RTB"}, sayStatusCounter |-> ssc,
          paramState |-> ps,
          out |-> (IF "RTB" \in e THEN <<Msg("STATUSTEXT_EXIT_RTB", 0, 0, 0)>> ELSE <<>>)
                  \o <<Msg("HEARTBEAT", 0, 0, 0), Msg("HEARTBEAT", 1, 0, 0)>>]
    ELSE [status |-> st, errors |-> e, sayStatusCounter |-> ssc, paramState |-> ps,
          out |-> <<>>]

(***************************************************************************)
(* The mission store (MissionManager)                                      *)
(***************************************************************************)
Items == 1..NumItems

ClearMissionList == [list |-> <<>>, current |-> -1]

\* append(item) -> indexOrFull: the index of the stored item, -1 when full.
AppendMission(list, item) ==
    IF Len(list) < MaxMissions
    THEN [list |-> Append(list, item), status |-> Len(list)]
    ELSE [list |-> list, status |-> -1]

\* setCurrent(seq): ignored when seq names no stored item.
SetCurrentMission(list, current, seq) ==
    IF seq < Len(list) THEN seq ELSE current

\* GetMissionCount: an 8-bit count.
GetMissionCount(list) == Len(list) % 256

(***************************************************************************)
(* MavLinkReceive: the handlers of the inbound messages (mavlink.c:526-770)*)
(***************************************************************************)
\* MissionCountRx with a store that is cleared only by an accepted announcement.
MissionCountRx_KeepList(count, st, list, cur, newSize) ==
    IF IS_AUTONOMOUS(st)
    THEN [list |-> list, current |-> cur, newSize |-> newSize,
          out |-> <<Msg("MISSION_ACK_ERROR", 0, 0, 0)>>]
    ELSE IF count % 65536 = 0 \/ count % 65536 > MaxMissions
    THEN [list |-> list, current |-> cur, newSize |-> count % 65536,
          out |-> IF count % 65536 = 0 THEN <<Msg("MISSION_ACK_ERROR", 0, 0, 0)>>
                  ELSE <<Msg("MISSION_ACK_NO_SPACE", 0, 0, 0)>>]
    ELSE [list |-> ClearMissionList.list, current |-> ClearMissionList.current,
          newSize |-> count % 65536,
          out |-> <<Msg("MISSION_REQUEST", 0, 0, 0)>>]

\* MISSION_COUNT (mavlink.c:555-590).  Returns the store, the expected
\* size and the reply.
MissionCountRx(count, st, list, cur, newSize) ==
    IF IS_AUTONOMOUS(st)
    THEN [list |-> list, current |-> cur, newSize |-> newSize,
          out |-> <<Msg("MISSION_ACK_ERROR", 0, 0, 0)>>]
    ELSE [list |-> ClearMissionList.list, current |-> ClearMissionList.current,
          newSize |-> count % 65536,
          out |-> IF count % 65536 = 0 THEN <<Msg("MISSION_ACK_ERROR", 0, 0, 0)>>
                  ELSE IF count % 65536 > MaxMissions
                  THEN <<Msg("MISSION_ACK_NO_SPACE", 0, 0, 0)>>
                  ELSE <<Msg("MISSION_REQUEST", 0, 0, 0)>>]

\* MISSION_ITEM (mavlink.c:595-651).
MissionItemRx_AnySeq(seq, item, isCurrent, list, cur, newSize) ==
    LET r == AppendMission(list, item)
    IN  IF r.status # -1
        THEN [list |-> r.list,
              current |-> IF isCurrent THEN SetCurrentMission(r.list, cur, seq) ELSE cur,
              out |-> IF r.status = newSize
                      THEN <<Msg("MISSION_ACK_ACCEPTED", 0, 0, 0)>>
                      ELSE <<Msg("MISSION_REQUEST", seq + 1, 0, 0)>>]
        ELSE [list |-> list, current |-> cur,
              out |-> <<Msg("MISSION_ACK_NO_SPACE", 0, 0, 0)>>]

MissionItemRx_NoCurrent(seq, item, isCurrent, list, cur, newSize) ==
    IF GetMissionCount(list) = seq
    THEN LET r == AppendMission(list, item)
         IN  IF r.status # -1
             THEN [list |-> r.list, current |-> cur,
                   out |-> IF r.status = newSize
                           THEN <<Msg("MISSION_ACK_ACCEPTED", 0, 0, 0)>>
                           ELSE <<Msg("MISSION_REQUEST", seq + 1, 0, 0)>>]
             ELSE [list |-> list, current |-> cur,
                   out |-> <<Msg("MISSION_ACK_NO_SPACE", 0, 0, 0)>>]
    ELSE [list |-> list, current |-> cur,
          out |-> <<Msg("MISSION_ACK_INVALID_SEQUENCE", 0, 0, 0)>>]

MissionItemRx(seq, item, isCurrent, list, cur, newSize) ==
    IF GetMissionCount(list) = seq
    THEN LET r == AppendMission(list, item)
         IN  IF r.status # -1
             THEN [list |-> r.list,
                   current |-> IF isCurrent THEN SetCurrentMission(r.list, cur, seq)
                               ELSE cur,
                   out |-> IF r.status = newSize
                           THEN <<Msg("MISSION_ACK_ACCEPTED", 0, 0, 0)>>
                           ELSE <<Msg("MISSION_REQUEST", seq + 1, 0, 0)>>]
             ELSE [list |-> list, current |-> cur,
                   out |-> <<Msg("MISSION_ACK_NO_SPACE", 0, 0, 0)>>]
    ELSE [list |-> list, current |-> cur,
          out |-> <<Msg("MISSION_ACK_INVALID_SEQUENCE", 0, 0, 0)>>]

\* _transmitParameterN (mavlink.c:261-300): N is 0..3.
TransmitParameter(n, st) ==
    Msg("PARAM_VALUE", n, IF ParamBits[n + 1] \in st THEN 1 ELSE 0, parameterCount)

\* PARAM_SET (mavlink.c:717-760).  name: the param_id string; value: the
\* 32-bit value.  Returns nodeStatus, the parameter FSM and the reply.
ParamSetRx(name, value, st, ps, cp) ==
    IF ps = "INACTIVE"
    THEN IF \E i \in 1..4 : ParamNames[i] = name
         THEN LET i == CHOOSE i \in 1..4 : ParamNames[i] = name
                  st2 == IF value # 0 THEN st \cup {ParamBits[i]}
                         ELSE st \ {ParamBits[i]}
              IN  [status |-> st2, paramState |-> "SINGLETON_TRANSMIT_START",
                   currentParameter |-> i - 1,
                   out |-> <<TransmitParameter(i - 1, st2)>>]
         ELSE [status |-> st, paramState |-> "SINGLETON_TRANSMIT_START",
               currentParameter |-> cp, out |-> <<>>]
    ELSE [status |-> st, paramState |-> ps, currentParameter |-> cp, out |-> <<>>]

\* MissionRequestListRx with a request that restarts a session in progress.
MissionRequestListRx_Restart(ms) ==
    "REQUEST_LIST_START"

\* MAVLINK_MSG_ID_MISSION_REQUEST_LIST (mavlink.c:653-657).
MissionRequestListRx(ms) ==
    IF ms = "INACTIVE" THEN "REQUEST_LIST_START" ELSE ms

\* MAVLINK_MSG_ID_MISSION_REQUEST (mavlink.c:660-666): the requested sequence
\* number, 16 bits on the wire, is held in a uint8_t.
MissionRequestRx(seq, ms, cm) ==
    IF cm = seq % 256 THEN "REQUEST_LIST_RESPONSE" ELSE ms

\* MAVLINK_MSG_ID_PARAM_REQUEST_LIST (mavlink.c:701-705).
ParamRequestListRx(ps) ==
    IF ps = "INACTIVE" THEN "STREAM_TRANSMIT_START" ELSE ps

\* ParamRequestReadRx without the check of the protocol state.
ParamRequestReadRx_NoGuard(index, ps, cp) ==
    [paramState |-> "SINGLETON_TRANSMIT_START", currentParameter |-> index % 256]

\* MAVLINK_MSG_ID_PARAM_REQUEST_READ (mavlink.c:708-713): the requested index
\* is cast to uint8_t.
ParamRequestReadRx(index, ps, cp) ==
    IF ps = "INACTIVE"
    THEN [paramState |-> "SINGLETON_TRANSMIT_START", currentParameter |-> index % 256]
    ELSE [paramState |-> ps, currentParameter |-> cp]

(***************************************************************************)
(* The message scheduler (MavlinkMessageScheduler)                         *)
(***************************************************************************)
\* MavLinkInit (mavlink.c:67-74): the periodic registrations, in order.
Registrations ==
    <<[id |-> "HEARTBEAT", period |-> 1], [id |-> "SYS_STATUS", period |-> 1],
      [id |-> "GPS_RAW_INT", period |-> 1], [id |-> "STATUS_AND_ERRORS", period |-> 4],
      [id |-> "WSO100", period |-> 2]>>
\* The schedule repeats with the least common multiple of the periods.
SchedCycle == 4

RECURSIVE PeriodicDue(_, _)
PeriodicDue(i, tick) ==
    IF i > Len(Registrations) THEN <<>>
    ELSE (IF tick % Registrations[i].period = 0 THEN <<Registrations[i].id>> ELSE <<>>)
         \o PeriodicDue(i + 1, tick)

\* tick(): the periodic ids due at the new tick, then the queued transients
\* in FIFO order; room is the number of transients the channel budget lets
\* through, the others stay queued for the next tick.
IncrementTimestep(tick, queue, room) ==
    LET n == IF room < Len(queue) THEN room ELSE Len(queue)
    IN  [send |-> PeriodicDue(1, tick + 1) \o SubSeq(queue, 1, n),
         queue |-> SubSeq(queue, n + 1, Len(queue)),
         tick |-> (tick + 1) % SchedCycle]

(***************************************************************************)
(* MavLinkTransmit (mavlink.c:377-518)                                     *)
(***************************************************************************)
\* SendMessage without the case of the wind message.
SendMessage_NoWind(id, x, st, list, cur) ==
    IF id = "PARAM_VALUE"
    THEN [x EXCEPT
            !.out = @ \o (IF x.cp \in 0..3 THEN <<TransmitParameter(x.cp, st)>> ELSE <<>>),
            !.cp = IF x.ps = "STREAM_TRANSMIT_WAITING" THEN (x.cp + 1) % 256 ELSE @,
            !.ps = IF x.ps = "STREAM_TRANSMIT_WAITING" THEN "STREAM_TRANSMIT_DELAY"
                   ELSE IF x.ps = "SINGLETON_TRANSMIT_WAITING" THEN "INACTIVE"
                   ELSE @]
    ELSE IF id = "MISSION_COUNT"
    THEN [x EXCEPT !.out = @ \o <<Msg("MISSION_COUNT", GetMissionCount(list), 0, 0)>>,
                   !.ms = "REQUEST_LIST_COUNTDOWN"]
    ELSE IF id = "MISSION_ITEM"
    THEN [x EXCEPT
            !.out = @ \o (IF x.cm < Len(list)
                          THEN <<Msg("MISSION_ITEM", x.cm, list[x.cm + 1],
                                     IF x.cm = cur % 256 THEN 1 ELSE 0)>>
                          ELSE <<>>),
            !.cm = (x.cm + 1) % 256,
            !.rc = 0,
            !.ms = "REQUEST_LIST_COUNTDOWN"]
    ELSE IF id = "WSO100" THEN x
    ELSE [x EXCEPT !.out = @ \o <<Msg(id, 0, 0, 0)>>]

\* SendMessage with a count announcement that is not transmitted.
SendMessage_NoCount(id, x, st, list, cur) ==
    IF id = "PARAM_VALUE"
    THEN [x EXCEPT
            !.out = @ \o (IF x.cp \in 0..3 THEN <<TransmitParameter(x.cp, st)>> ELSE <<>>),
            !.cp = IF x.ps = "STREAM_TRANSMIT_WAITING" THEN (x.cp + 1) % 256 ELSE @,
            !.ps = IF x.ps = "STREAM_TRANSMIT_WAITING" THEN "STREAM_TRANSMIT_DELAY"
                   ELSE IF x.ps = "SINGLETON_TRANSMIT_WAITING" THEN "INACTIVE"
                   ELSE @]
    ELSE IF id = "MISSION_COUNT"
    THEN [x EXCEPT !.ms = "REQUEST_LIST_COUNTDOWN"]
    ELSE IF id = "MISSION_ITEM"
    THEN [x EXCEPT
            !.out = @ \o (IF x.cm < Len(list)
                          THEN <<Msg("MISSION_ITEM", x.cm, list[x.cm + 1],
                                     IF x.cm = cur % 256 THEN 1 ELSE 0)>>
                          ELSE <<>>),
            !.cm = (x.cm + 1) % 256,
            !.rc = 0,
            !.ms = "REQUEST_LIST_COUNTDOWN"]
    ELSE [x EXCEPT !.out = @ \o <<Msg(id, 0, 0, 0)>>]

\* x: [ps, cp, ms, cm, rc, out]; one iteration of the send loop (454-517).
SendMessage(id, x, st, list, cur) ==
    IF id = "PARAM_VALUE"
    THEN [x EXCEPT
            !.out = @ \o (IF x.cp \in 0..3 THEN <<TransmitParameter(x.cp, st)>> ELSE <<>>),
            !.cp = IF x.ps = "STREAM_TRANSMIT_WAITING" THEN (x.cp + 1) % 256 ELSE @,
            !.ps = IF x.ps = "STREAM_TRANSMIT_WAITING" THEN "STREAM_TRANSMIT_DELAY"
                   ELSE IF x.ps = "SINGLETON_TRANSMIT_WAITING" THEN "INACTIVE"
                   ELSE @]
    ELSE IF id = "MISSION_COUNT"
    THEN [x EXCEPT !.out = @ \o <<Msg("MISSION_COUNT", GetMissionCount(list), 0, 0)>>,
                   !.ms = "REQUEST_LIST_COUNTDOWN"]
    ELSE IF id = "MISSION_ITEM"
    THEN [x EXCEPT
            !.out = @ \o (IF x.cm < Len(list)
                          THEN <<Msg("MISSION_ITEM", x.cm, list[x.cm + 1],
                                     IF x.cm = cur % 256 THEN 1 ELSE 0)>>
                          ELSE <<>>),
            !.cm = (x.cm + 1) % 256,
            !.rc = 0,
            !.ms = "REQUEST_LIST_COUNTDOWN"]
    ELSE [x EXCEPT !.out = @ \o <<Msg(id, 0, 0, 0)>>]

RECURSIVE SendAll(_, _, _, _, _)
SendAll(ids, x, st, list, cur) ==
    IF ids = <<>> THEN x
    ELSE SendAll(Tail(ids), SendMessage(Head(ids), x, st, list, cur), st, list, cur)

\* ParameterProtocolStep with a stream that starts at the index left by the
\* previous request.
ParameterProtocolStep_NoRestart(ps, cp, dc, queue) ==
    [queue |-> IF ps = "SINGLETON_TRANSMIT_START"
                  \/ (ps = "STREAM_TRANSMIT_PARAM" /\ cp < parameterCount)
               THEN Append(queue, "PARAM_VALUE") ELSE queue,
     ps |-> CASE ps = "SINGLETON_TRANSMIT_START" -> "SINGLETON_TRANSMIT_WAITING"
              [] ps = "STREAM_TRANSMIT_START" -> "STREAM_TRANSMIT_PARAM"
              [] ps = "STREAM_TRANSMIT_PARAM" ->
                     IF cp < parameterCount THEN "STREAM_TRANSMIT_WAITING"
                     ELSE "INACTIVE"
              [] ps = "STREAM_TRANSMIT_DELAY" ->
                     IF dc = 9 THEN "STREAM_TRANSMIT_PARAM" ELSE ps
              [] OTHER -> ps,
     cp |-> cp,
     dc |-> IF ps = "STREAM_TRANSMIT_DELAY"
            THEN (IF dc = 9 THEN 0 ELSE (dc + 1) % 256) ELSE dc]

\* ParameterProtocolStep with a delay that ends one invocation earlier.
ParameterProtocolStep_ShortDelay(ps, cp, dc, queue) ==
    [queue |-> IF ps = "SINGLETON_TRANSMIT_START"
                  \/ (ps = "STREAM_TRANSMIT_PARAM" /\ cp < parameterCount)
               THEN Append(queue, "PARAM_VALUE") ELSE queue,
     ps |-> CASE ps = "SINGLETON_TRANSMIT_START" -> "SINGLETON_TRANSMIT_WAITING"
              [] ps = "STREAM_TRANSMIT_START" -> "STREAM_TRANSMIT_PARAM"
              [] ps = "STREAM_TRANSMIT_PARAM" ->
                     IF cp < parameterCount THEN "STREAM_TRANSMIT_WAITING"
                     ELSE "INACTIVE"
              [] ps = "STREAM_TRANSMIT_DELAY" ->
                     IF dc >= 8 THEN "STREAM_TRANSMIT_PARAM" ELSE ps
              [] OTHER -> ps,
     cp |-> IF ps = "STREAM_TRANSMIT_START" THEN 0 ELSE cp,
     dc |-> IF ps = "STREAM_TRANSMIT_DELAY"
            THEN (IF dc >= 8 THEN 0 ELSE (dc + 1) % 256) ELSE dc]

\* ParameterProtocolStep with a single request that is over once its value
\* is queued.
ParameterProtocolStep_SingleDone(ps, cp, dc, queue) ==
    [queue |-> IF ps = "SINGLETON_TRANSMIT_START"
                  \/ (ps = "STREAM_TRANSMIT_PARAM" /\ cp < parameterCount)
               THEN Append(queue, "PARAM_VALUE") ELSE queue,
     ps |-> CASE ps = "SINGLETON_TRANSMIT_START" -> "INACTIVE"
              [] ps = "STREAM_TRANSMIT_START" -> "STREAM_TRANSMIT_PARAM"
              [] ps = "STREAM_TRANSMIT_PARAM" ->
                     IF cp < parameterCount THEN "STREAM_TRANSMIT_WAITING"
                     ELSE "INACTIVE"
              [] ps = "STREAM_TRANSMIT_DELAY" ->
                     IF dc = 9 THEN "STREAM_TRANSMIT_PARAM" ELSE ps
              [] OTHER -> ps,
     cp |-> IF ps = "STREAM_TRANSMIT_START" THEN 0 ELSE cp,
     dc |-> IF ps = "STREAM_TRANSMIT_DELAY"
            THEN (IF dc = 9 THEN 0 ELSE (dc + 1) % 256) ELSE dc]

\* mavlink.c:382-423: the step of the parameter protocol, which queues a
\* PARAM_VALUE transient when a value is to be sent.
ParameterProtocolStep(ps, cp, dc, queue) ==
    [queue |-> IF ps = "SINGLETON_TRANSMIT_START"
                  \/ (ps = "STREAM_TRANSMIT_PARAM" /\ cp < parameterCount)
               THEN Append(queue, "PARAM_VALUE") ELSE queue,
     ps |-> CASE ps = "SINGLETON_TRANSMIT_START" -> "SINGLETON_TRANSMIT_WAITING"
              [] ps = "STREAM_TRANSMIT_START" -> "STREAM_TRANSMIT_PARAM"
              [] ps = "STREAM_TRANSMIT_PARAM" ->
                     IF cp < parameterCount THEN "STREAM_TRANSMIT_WAITING"
                     ELSE "INACTIVE"
              [] ps = "STREAM_TRANSMIT_DELAY" ->
                     IF dc = 9 THEN "STREAM_TRANSMIT_PARAM" ELSE ps
              [] OTHER -> ps,
     cp |-> IF ps = "STREAM_TRANSMIT_START" THEN 0 ELSE cp,
     dc |-> IF ps = "STREAM_TRANSMIT_DELAY"
            THEN (IF dc = 9 THEN 0 ELSE (dc + 1) % 256) ELSE dc]

\* MissionProtocolStep with a countdown that ends one invocation earlier.
MissionProtocolStep_ShortCountdown(ms, cm, rc, queue) ==
    [queue |-> CASE ms = "REQUEST_LIST_START" -> Append(queue, "MISSION_COUNT")
                 [] ms = "REQUEST_LIST_RESPONSE" -> Append(queue, "MISSION_ITEM")
                 [] OTHER -> queue,
     ms |-> CASE ms = "REQUEST_LIST_START" -> "REQUEST_LIST_COUNTDOWN"
              [] ms = "REQUEST_LIST_COUNTDOWN" -> IF rc > 19 THEN "INACTIVE" ELSE ms
              [] ms = "REQUEST_LIST_RESPONSE" -> "REQUEST_LIST_WAITING"
              [] OTHER -> ms,
     rc |-> CASE ms = "REQUEST_LIST_START" -> 0
              [] ms = "REQUEST_LIST_COUNTDOWN" -> IF rc > 19 THEN 0 ELSE (rc + 1) % 256
              [] OTHER -> rc,
     cm |-> IF ms = "REQUEST_LIST_START" THEN 0 ELSE cm]

\* MissionProtocolStep with a countdown that never ends.
MissionProtocolStep_NoTimeout(ms, cm, rc, queue) ==
    [queue |-> CASE ms = "REQUEST_LIST_START" -> Append(queue, "MISSION_COUNT")
                 [] ms = "REQUEST_LIST_RESPONSE" -> Append(queue, "MISSION_ITEM")
                 [] OTHER -> queue,
     ms |-> CASE ms = "REQUEST_LIST_START" -> "REQUEST_LIST_COUNTDOWN"
              [] ms = "REQUEST_LIST_RESPONSE" -> "REQUEST_LIST_WAITING"
              [] OTHER -> ms,
     rc |-> CASE ms = "REQUEST_LIST_START" -> 0
              [] ms = "REQUEST_LIST_COUNTDOWN" -> IF rc > 20 THEN 0 ELSE (rc + 1) % 256
              [] OTHER -> rc,
     cm |-> IF ms = "REQUEST_LIST_START" THEN 0 ELSE cm]

\* mavlink.c:426-449: the step of the mission protocol, which queues the
\* MISSION_COUNT and MISSION_ITEM transients of a download.
MissionProtocolStep(ms, cm, rc, queue) ==
    [queue |-> CASE ms = "REQUEST_LIST_START" -> Append(queue, "MISSION_COUNT")
                 [] ms = "REQUEST_LIST_RESPONSE" -> Append(queue, "MISSION_ITEM")
                 [] OTHER -> queue,
     ms |-> CASE ms = "REQUEST_LIST_START" -> "REQUEST_LIST_COUNTDOWN"
              [] ms = "REQUEST_LIST_COUNTDOWN" -> IF rc > 20 THEN "INACTIVE" ELSE ms
              [] ms = "REQUEST_LIST_RESPONSE" -> "REQUEST_LIST_WAITING"
              [] OTHER -> ms,
     rc |-> CASE ms = "REQUEST_LIST_START" -> 0
              [] ms = "REQUEST_LIST_COUNTDOWN" -> IF rc > 20 THEN 0 ELSE (rc + 1) % 256
              [] OTHER -> rc,
     cm |-> IF ms = "REQUEST_LIST_START" THEN 0 ELSE cm]

\* Returns the parameter FSM (ps, cp, dc), the mission FSM (ms, cm, rc), the
\* scheduler (queue, tick) and the messages sent.
MavLinkTransmit(ps, cp, dc, ms, cm, rc, queue, tick, room, st, list, cur) ==
    LET \* 382-423: the parameter protocol
        p == ParameterProtocolStep(ps, cp, dc, queue)
        \* 426-449: the mission protocol
        m == MissionProtocolStep(ms, cm, rc, p.queue)
        \* 452-517: the messages of this timestep
        sch == IncrementTimestep(tick, m.queue, room)
        x == SendAll(sch.send,
                     [ps |-> p.ps, cp |-> p.cp, ms |-> m.ms, cm |-> m.cm, rc |-> m.rc,
                      out |-> <<>>],
                     st, list, cur)
    IN  [ps |-> x.ps, cp |-> x.cp, dc |-> p.dc, ms |-> x.ms, cm |-> x.cm, rc |-> x.rc,
         queue |-> sch.queue, tick |-> sch.tick, out |-> x.out]

(***************************************************************************)
(* State machine                                                           *)
(***************************************************************************)
\* Inputs of the model.
Modes == {"MANUAL", "AUTONOMOUS"}
ModeNum(m) == IF m = "AUTONOMOUS" THEN 1 ELSE 0

\* The sensor signals a pass may see changed, per specification.
RtbSignals == {"Calibrated", "imuEnabled", "gpsActive"}

\* The inputs of the 100 Hz loop and of the output mux, per specification:
\* controller rudder commands, binned manual rudder commands, raw manual
\* throttles, waypoint reports and channel room.
QuietInputs ==
    [rudder |-> {6}, manRc |-> {0}, manTc |-> {1000}, wpReached |-> {FALSE},
     wpSwitched |-> {FALSE}, rooms |-> {1}, ticks |-> MaxTicks]

Rtb(e) == e \cap RTB_RESET_MASK

\* The upload session as the ground station drives it: a count announcement
\* sent in manual mode with 1 <= count <= capacity opens it, each following
\* item sent in manual mode with the next sequence number, flagged current
\* exactly when it is the last, extends it; any other mission message ends it.
NoUpload == [active |-> FALSE, count |-> 0, items |-> <<>>]

\* o: the step; item: the payload of a MISSION_ITEM.
NextUpload(o, item) ==
    IF o.name = "MISSION_COUNT"
    THEN IF ~IS_AUTONOMOUS(nodeStatus) /\ o.a >= 1 /\ o.a <= MaxMissions
         THEN [active |-> TRUE, count |-> o.a, items |-> <<>>]
         ELSE NoUpload
    ELSE IF o.name = "MISSION_ITEM"
    THEN IF upload.active /\ ~IS_AUTONOMOUS(nodeStatus)
            /\ o.a = Len(upload.items) /\ o.a < upload.count
            /\ (o.b = 1 <=> o.a = upload.count - 1)
         THEN [upload EXCEPT !.items = Append(@, item)]
         ELSE NoUpload
    ELSE IF o.name \in {"MISSION_CLEAR_ALL", "MISSION_SET_CURRENT"}
    THEN NoUpload
    ELSE upload

\* The RTB notifications as the operator sees them.  st, e, outv: the status,
\* the faults and the output after the step.
\*   0: manual, or autonomous with no notification since autonomy began
\*   1: notified, autonomous ever since, RTB subset not yet back to zero
\*   2: as 1, and the RTB subset is back to zero
\*   3: as 2, and the RTB subset is nonzero again
NextRtbLog(st, e, outv) ==
    LET fired == \E i \in 1..Len(outv) : outv[i].t = "STATUSTEXT_RTB"
    IN  IF ~IS_AUTONOMOUS(st) THEN 0
        ELSE IF fired THEN 1
        ELSE IF rtbLog = 1 /\ Rtb(e) = {} THEN 2
        ELSE IF rtbLog = 2 /\ Rtb(e) # {} THEN 3
        ELSE IF rtbLog = 3 /\ Rtb(e) = {} THEN 2
        ELSE rtbLog

\* The parameter request being served, as the ground station sees it.
\*   kind: "list", "read", "set" (name matched), "unknown" (name matched no
\*         parameter), "none" before the first request
\*   sent: the indices of the PARAM_VALUE messages transmitted since the
\*         request was accepted, in order
\*   gap:  MavLinkTransmit invocations since the last PARAM_VALUE of a stream,
\*         every transient since then sent by the invocation that queued it;
\*         -1 otherwise
ParamValues(outv) ==
    LET pv == SelectSeq(outv, LAMBDA m : m.t = "PARAM_VALUE")
    IN  [i \in 1..Len(pv) |-> pv[i].a]

NoParamLog == [kind |-> "none", sent |-> <<>>, gap |-> -1]

NextParamLog(o, outv) ==
    LET vals == ParamValues(outv)
        accepted ==
            /\ parameterProtocolState = "INACTIVE"
            /\ \/ o.name \in {"PARAM_REQUEST_LIST", "PARAM_REQUEST_READ", "PARAM_SET"}
               \/ \E i \in 1..Len(outv) : outv[i].t = "ALL_PARAMETERS"
    IN  IF accepted
        THEN [kind |-> CASE o.name = "PARAM_REQUEST_READ" -> "read"
                         [] o.name = "PARAM_SET" -> IF o.a = 0 THEN "unknown" ELSE "set"
                         [] OTHER -> "list",
              sent |-> vals, gap |-> -1]
        ELSE IF o.name = "Tick"
        THEN [kind |-> paramLog.kind,
              sent |-> paramLog.sent \o vals,
              gap |-> IF vals # <<>> /\ paramLog.kind = "list" THEN 0
                      ELSE IF paramLog.gap # -1
                              /\ parameterProtocolState = "STREAM_TRANSMIT_DELAY"
                      THEN paramLog.gap + 1
                      ELSE -1]
        ELSE paramLog

\* The consecutive MavLinkTransmit invocations begun in the list countdown
\* with no transient waiting in the queue; -1 once one of them found a
\* transient deferred by an earlier invocation.
NextCountdownTicks(o) ==
    IF o.name # "Tick" THEN countdownTicks
    ELSE IF missionProtocolState # "REQUEST_LIST_COUNTDOWN" THEN 0
    ELSE IF countdownTicks = -1 \/ transients # <<>> THEN -1
    ELSE countdownTicks + 1

\* The signals whose active edges the aggregator follows (PrimaryNode.c:
\* 292-317, 376-404).
ActiveSignals == {"gpsActive", "rcNodeActive", "rudderActive"}

\* The signals of ActiveSignals that a sample of the sensors has shown to go
\* from true to false, at this pass or an earlier one.
NextFell(o) ==
    IF o.name = "Sense"
    THEN fell \cup {f \in ActiveSignals : sensorAvailability[f] /\ ~sensorAvailability'[f]}
    ELSE fell

\* The subsystems whose loss the aggregator records on the falling edge of
\* their enabled signal (PrimaryNode.c:319-337, 354-370).
EnableSignals == {"propEnabled", "rudderEnabled", "dst800Enabled", "imuEnabled"}

\* The signals of EnableSignals that a sample of the sensors has shown true,
\* at this pass or an earlier one.
NextEnabledSeen(o) ==
    IF o.name = "Sense"
    THEN enabledSeen \cup {f \in EnableSignals : sensorAvailability'[f]}
    ELSE enabledSeen

\* The history variables after a step o that emitted outv.
\* st, e: the status and fault words the step leaves.
HistoryItem(o, item, outv, st, e) ==
    /\ op' = o
    /\ out' = outv
    /\ upload' = NextUpload(o, item)
    /\ rtbLog' = NextRtbLog(st, e, outv)
    /\ modeSetByParam' = (modeSetByParam \/ (o.name = "PARAM_SET" /\ o.a = 1))
    /\ paramLog' = NextParamLog(o, outv)
    /\ countdownTicks' = NextCountdownTicks(o)
    /\ fell' = NextFell(o)
    /\ enabledSeen' = NextEnabledSeen(o)

History(o, outv, st, e) == HistoryItem(o, 0, outv, st, e)

paramVars == <<parameterProtocolState, currentParameter, delayCountdown>>
missionFsmVars == <<missionProtocolState, currentMission, missionProtocolRequestCounter>>
schedVars == <<transients, schedTick>>
storeVars == <<mList, currentMissionIndex, mavlinkNewMissionListSize>>
sensorVars == <<sensorAvailability, lastSensorAvailability>>
linkVars == <<groundStationSystemId, groundStationComponentId, msg>>
tickVars == <<nodeSystemTime, currentCommands>>

Init ==
    /\ pc = "sense"
    /\ sensorAvailability =
          [gpsEnabled |-> FALSE, gpsActive |-> FALSE, gpsLastActive |-> 0,
           propEnabled |-> FALSE, rudderEnabled |-> FALSE, rudderActive |-> FALSE,
           rcNodeEnabled |-> FALSE, rcNodeActive |-> FALSE, dst800Enabled |-> FALSE,
           imuEnabled |-> FALSE, Calibrating |-> FALSE, Calibrated |-> FALSE,
           gcsSilence |-> 0, ecanTxErr |-> FALSE, ecanRxErr |-> FALSE]
    /\ lastSensorAvailability =
          [gpsEnabled |-> FALSE, gpsActive |-> FALSE, propEnabled |-> FALSE,
           rudderEnabled |-> FALSE, rcNodeEnabled |-> FALSE, dst800Enabled |-> FALSE,
           imuEnabled |-> FALSE, rcNodeActive |-> FALSE, rudderActive |-> FALSE]
    /\ nodeErrors = {}
    /\ nodeStatus = {}
    /\ lastErrorState = {}
    /\ nodeSystemTime = 0
    /\ currentCommands =
          [primaryManualRudderCommand |-> 0, primaryManualThrottleCommand |-> 0,
           autonomousRudderCommand |-> 0, autonomousThrottleCommand |-> 0,
           secondaryManualRudderCommand |-> 0, secondaryManualThrottleCommand |-> 0]
    /\ sayStatusCounter = 0
    /\ parameterProtocolState = "INACTIVE"
    /\ currentParameter = 0
    /\ delayCountdown = 0
    /\ missionProtocolState = "INACTIVE"
    /\ currentMission = 0
    /\ missionProtocolRequestCounter = 0
    /\ transients = <<>>
    /\ schedTick = 0
    /\ mList = <<>>
    /\ currentMissionIndex = -1
    /\ mavlinkNewMissionListSize = 0
    /\ out = <<>>
    /\ op = Op("Init", 0, 0, 0)
    /\ upload = NoUpload
    /\ rtbLog = 0
    /\ modeSetByParam = FALSE
    /\ paramLog = NoParamLog
    /\ countdownTicks = 0
    /\ fell = {}
    /\ enabledSeen = {}
    /\ groundStationSystemId = 0
    /\ groundStationComponentId = 0
    /\ msg = [sysid |-> 0, compid |-> 0]

\* The sample of a pass: the signals of T have changed since the last pass.
\* gps.last_active follows the system time while the GPS is active.
Sample(T) ==
    [f \in DOMAIN sensorAvailability |->
        IF f = "gpsLastActive"
        THEN (IF sensorAvailability.gpsActive # ("gpsActive" \in T)
              THEN nodeSystemTime ELSE sensorAvailability.gpsLastActive)
        ELSE IF f = "gcsSilence"
        THEN (IF f \in T
              THEN (IF sensorAvailability[f] = 0 THEN GCS_DISCONNECTION_TIME ELSE 0)
              ELSE sensorAvailability[f])
        ELSE (sensorAvailability[f] # (f \in T))]

\* PrimaryNode.c:262-436: read the sensors, aggregate the faults.
MainLoopSense(Signals, In) ==
    /\ pc = "sense"
    /\ \E T \in SUBSET Signals, manRc \in In.manRc, manTcRaw \in In.manTc :
          LET s == Sample(T)
              r == AggregateFaults(s, lastSensorAvailability, nodeErrors, nodeStatus,
                                   nodeSystemTime, currentCommands, manRc, manTcRaw)
          IN  /\ sensorAvailability' = s
              /\ lastSensorAvailability' = r.last
              /\ nodeErrors' = r.errors
              /\ nodeStatus' = r.status
              /\ currentCommands' = r.cmds
              /\ History(Op("Sense", 0, 0, 0), r.out, r.status, r.errors)
    /\ pc' = "receive"
    /\ UNCHANGED <<linkVars, lastErrorState, nodeSystemTime, sayStatusCounter, paramVars,
                   missionFsmVars, schedVars, storeVars>>

\* A mode command: the node's command handlers call SetAutoMode while the
\* inbound messages of the pass are processed.
RecvSetAutoMode ==
    /\ pc = "receive"
    /\ \E m \in Modes :
          LET r == SetAutoMode(m, nodeStatus, nodeErrors, sayStatusCounter,
                               parameterProtocolState)
          IN  /\ nodeStatus' = r.status
              /\ nodeErrors' = r.errors
              /\ sayStatusCounter' = r.sayStatusCounter
              /\ parameterProtocolState' = r.paramState
              /\ History(Op("SetAutoMode", ModeNum(m), 0, 0), r.out, r.status, r.errors)
    /\ UNCHANGED <<linkVars, pc, sensorVars, lastErrorState, tickVars, currentParameter,
                   delayCountdown, missionFsmVars, schedVars, storeVars>>

\* The senders of inbound messages: the ground station, and a second station
\* on the same channel.
GroundStation == [sysid |-> 255, compid |-> 190]
OtherStation == [sysid |-> 7, compid |-> 1]
OneStation == {GroundStation}

\* MavLinkReceive without the latch: the stored ids follow every message.
Latch_Follow(sysid, compid, m) ==
    [sysid |-> m.sysid, compid |-> m.compid]

\* mavlink.c:541-544: the ids of the first message parsed are stored, while
\* both stored ids are zero.
Latch(sysid, compid, m) ==
    IF sysid = 0 /\ compid = 0
    THEN [sysid |-> m.sysid, compid |-> m.compid]
    ELSE [sysid |-> sysid, compid |-> compid]

\* MavLinkReceive (mavlink.c:526-549) for one message parsed, sent by one of
\* Senders: the latch, then the case of the message, Handler.
MavLinkReceive(Senders, Handler) ==
    \E m \in Senders :
       LET l == Latch(groundStationSystemId, groundStationComponentId, m)
       IN  /\ msg' = m
           /\ groundStationSystemId' = l.sysid
           /\ groundStationComponentId' = l.compid
           /\ Handler

\* PARAM_SET of parameter number i (0 when the name matches none) to v.
RecvParamSet(Names) ==
    /\ pc = "receive"
    /\ \E name \in Names, v \in {0, 1} :
          LET r == ParamSetRx(name, v, nodeStatus, parameterProtocolState,
                              currentParameter)
              i == IF \E k \in 1..4 : ParamNames[k] = name
                   THEN CHOOSE k \in 1..4 : ParamNames[k] = name ELSE 0
          IN  /\ nodeStatus' = r.status
              /\ parameterProtocolState' = r.paramState
              /\ currentParameter' = r.currentParameter
              /\ History(Op("PARAM_SET", i, v, 0), r.out, r.status, nodeErrors)
    /\ UNCHANGED <<pc, sensorVars, nodeErrors, lastErrorState, tickVars,
                   sayStatusCounter, delayCountdown, missionFsmVars, schedVars,
                   storeVars>>

\* A MISSION_REQUEST_LIST message is received (mavlink.c:653-657).
RecvMissionRequestList ==
    /\ pc = "receive"
    /\ missionProtocolState' = MissionRequestListRx(missionProtocolState)
    /\ History(Op("MISSION_REQUEST_LIST", 0, 0, 0), <<>>, nodeStatus, nodeErrors)
    /\ UNCHANGED <<pc, sensorVars, nodeStatus, nodeErrors, lastErrorState, tickVars,
                   sayStatusCounter, paramVars, currentMission,
                   missionProtocolRequestCounter, schedVars, storeVars>>

\* A MISSION_REQUEST message for one of the sequence numbers is received
\* (mavlink.c:660-666).
RecvMissionRequest(Seqs) ==
    /\ pc = "receive"
    /\ \E seq \in Seqs :
          /\ missionProtocolState' =
                 MissionRequestRx(seq, missionProtocolState, currentMission)
          /\ History(Op("MISSION_REQUEST", seq, 0, 0), <<>>, nodeStatus, nodeErrors)
    /\ UNCHANGED <<pc, sensorVars, nodeStatus, nodeErrors, lastErrorState, tickVars,
                   sayStatusCounter, paramVars, currentMission,
                   missionProtocolRequestCounter, schedVars, storeVars>>

\* A PARAM_REQUEST_LIST message is received (mavlink.c:701-705).
RecvParamRequestList ==
    /\ pc = "receive"
    /\ parameterProtocolState' = ParamRequestListRx(parameterProtocolState)
    /\ History(Op("PARAM_REQUEST_LIST", 0, 0, 0), <<>>, nodeStatus, nodeErrors)
    /\ UNCHANGED <<pc, sensorVars, nodeStatus, nodeErrors, lastErrorState, tickVars,
                   sayStatusCounter, currentParameter, delayCountdown,
                   missionFsmVars, schedVars, storeVars>>

\* A PARAM_REQUEST_READ message for one of the indices is received
\* (mavlink.c:708-713).
RecvParamRequestRead(Indices) ==
    /\ pc = "receive"
    /\ \E index \in Indices :
          LET r == ParamRequestReadRx(index, parameterProtocolState, currentParameter)
          IN  /\ parameterProtocolState' = r.paramState
              /\ currentParameter' = r.currentParameter
              /\ History(Op("PARAM_REQUEST_READ", index, 0, 0), <<>>, nodeStatus,
                         nodeErrors)
    /\ UNCHANGED <<pc, sensorVars, nodeStatus, nodeErrors, lastErrorState, tickVars,
                   sayStatusCounter, delayCountdown, missionFsmVars, schedVars,
                   storeVars>>

RecvMissionCount ==
    /\ pc = "receive"
    /\ \E count \in 0..(MaxMissions + 1) :
          LET r == MissionCountRx(count, nodeStatus, mList, currentMissionIndex,
                                  mavlinkNewMissionListSize)
          IN  /\ mList' = r.list
              /\ currentMissionIndex' = r.current
              /\ mavlinkNewMissionListSize' = r.newSize
              /\ History(Op("MISSION_COUNT", count, 0, 0), r.out, nodeStatus, nodeErrors)
    /\ UNCHANGED <<pc, sensorVars, nodeErrors, nodeStatus, lastErrorState, tickVars,
                   sayStatusCounter, paramVars, missionFsmVars, schedVars>>

RecvMissionItem ==
    /\ pc = "receive"
    /\ \E seq \in 0..MaxMissions, item \in Items, isCurrent \in BOOLEAN :
          LET r == MissionItemRx(seq, item, isCurrent, mList, currentMissionIndex,
                                 mavlinkNewMissionListSize)
          IN  /\ mList' = r.list
              /\ currentMissionIndex' = r.current
              /\ HistoryItem(Op("MISSION_ITEM", seq, IF isCurrent THEN 1 ELSE 0, 0),
                             item, r.out, nodeStatus, nodeErrors)
    /\ UNCHANGED <<pc, sensorVars, nodeErrors, nodeStatus, lastErrorState, tickVars,
                   sayStatusCounter, paramVars, missionFsmVars, schedVars,
                   mavlinkNewMissionListSize>>

\* MISSION_CLEAR_ALL (mavlink.c:671-680).
\* RecvMissionClearAll refused in autonomous mode, as a count announcement is.
RecvMissionClearAll_ManualOnly ==
    /\ pc = "receive"
    /\ mList' = IF IS_AUTONOMOUS(nodeStatus) THEN mList ELSE ClearMissionList.list
    /\ currentMissionIndex' = IF IS_AUTONOMOUS(nodeStatus) THEN currentMissionIndex
                               ELSE ClearMissionList.current
    /\ History(Op("MISSION_CLEAR_ALL", 0, 0, 0),
               <<Msg(IF IS_AUTONOMOUS(nodeStatus) THEN "MISSION_ACK_ERROR"
                     ELSE "MISSION_ACK_ACCEPTED", 0, 0, 0)>>,
               nodeStatus, nodeErrors)
    /\ UNCHANGED <<pc, sensorVars, nodeErrors, nodeStatus, lastErrorState, tickVars,
                   sayStatusCounter, paramVars, missionFsmVars, schedVars,
                   mavlinkNewMissionListSize>>

RecvMissionClearAll ==
    /\ pc = "receive"
    /\ mList' = ClearMissionList.list
    /\ currentMissionIndex' = ClearMissionList.current
    /\ History(Op("MISSION_CLEAR_ALL", 0, 0, 0), <<Msg("MISSION_ACK_ACCEPTED", 0, 0, 0)>>,
               nodeStatus, nodeErrors)
    /\ UNCHANGED <<pc, sensorVars, nodeErrors, nodeStatus, lastErrorState, tickVars,
                   sayStatusCounter, paramVars, missionFsmVars, schedVars,
                   mavlinkNewMissionListSize>>

\* MISSION_SET_CURRENT (mavlink.c:683-692); the reply is MavLinkSendCurrentMission
\* (mavlink.c:244-256).
RecvMissionSetCurrent ==
    /\ pc = "receive"
    /\ \E seq \in 0..MaxMissions :
          LET c == SetCurrentMission(mList, currentMissionIndex, seq % 256)
          IN  /\ currentMissionIndex' = c
              /\ History(Op("MISSION_SET_CURRENT", seq, 0, 0),
                         IF c # -1 THEN <<Msg("MISSION_CURRENT", c, 0, 0)>> ELSE <<>>,
                         nodeStatus, nodeErrors)
    /\ UNCHANGED <<pc, sensorVars, nodeErrors, nodeStatus, lastErrorState, tickVars,
                   sayStatusCounter, paramVars, missionFsmVars, schedVars, mList,
                   mavlinkNewMissionListSize>>

\* PrimaryNode.c:453-471, reached when MavLinkReceive has drained its queue.
MainLoopRtbCheck ==
    /\ pc = "receive"
    /\ LET r == RtbCheck(nodeErrors, lastErrorState, nodeStatus)
       IN  /\ nodeErrors' = r.errors
           /\ lastErrorState' = r.lastErrorState
           /\ History(Op("RtbCheck", 0, 0, 0), r.out, nodeStatus, r.errors)
    /\ pc' = "timer"
    /\ UNCHANGED <<linkVars, sensorVars, nodeStatus, tickVars, sayStatusCounter, paramVars, missionFsmVars,
                   schedVars, storeVars>>

\* PrimaryNode.c:474: the timer has not reached the 0.01 s mark.
MainLoopNoTimer ==
    /\ pc = "timer"
    /\ pc' = "sense"
    /\ History(Op("NoTimer", 0, 0, 0), <<>>, nodeStatus, nodeErrors)
    /\ UNCHANGED <<linkVars, sensorVars, nodeStatus, nodeErrors, lastErrorState, tickVars, sayStatusCounter, paramVars,
                   missionFsmVars, schedVars, storeVars>>

\* NextSystemTime with a counter that wraps to 0 past its largest value.
NextSystemTime_Wrap(t) ==
    IF t < NodeSystemTimeMax THEN t + 1 ELSE 0

\* PrimaryNode.c:597-601: the system time counter stops at its largest value.
NextSystemTime(t) ==
    IF t < NodeSystemTimeMax THEN t + 1 ELSE t

\* PrimaryNode100HzLoop (PrimaryNode.c:485-602), run when the timer has
\* passed the 0.01 s mark.  rCommand is the controller's rudder command,
\* wpReached and wpSwitched say whether the controller reports a waypoint
\* reached or a new current waypoint, room is the channel's room for
\* transient messages in this tick; In.ticks bounds the ticks explored.
PrimaryNode100HzLoop(In) ==
    /\ pc = "timer"
    /\ nodeSystemTime < In.ticks
    /\ \E rCommand \in In.rudder, manRc \in In.manRc, manTcRaw \in In.manTc,
          wpReached \in In.wpReached, wpSwitched \in In.wpSwitched, room \in In.rooms :
          LET \* 515-519: the startup reset
              e1 == IF nodeSystemTime = 0 THEN nodeErrors \cup {"STARTUP"}
                    ELSE IF nodeSystemTime = STARTUP_RESET_TIME
                    THEN nodeErrors \ {"STARTUP"}
                    ELSE nodeErrors
              \* 565: the output mux, not forced
              mux == PrimaryNodeMuxAndOutputControllerCommands(
                         rCommand, 0, manRc, manTcRaw, nodeStatus, e1, currentCommands)
              \* 568-575: waypoint announcements
              wp == (IF wpReached THEN <<Msg("MISSION_ITEM_REACHED", 0, 0, 0)>> ELSE <<>>)
                    \o (IF wpSwitched THEN <<Msg("MISSION_CURRENT", 0, 0, 0)>> ELSE <<>>)
              \* 578: the ground station messages of this timestep
              tx == MavLinkTransmit(parameterProtocolState, currentParameter,
                                    delayCountdown, missionProtocolState, currentMission,
                                    missionProtocolRequestCounter, transients, schedTick,
                                    room, nodeStatus, mList, currentMissionIndex)
              \* 586-595: the audio status update
              say == IS_AUTONOMOUS(nodeStatus) /\ e1 = {} /\ ~wpReached
                     /\ sayStatusCounter >= SAY_STATUS_COUNTER_LIMIT
              ssc == IF IS_AUTONOMOUS(nodeStatus) /\ e1 = {}
                     THEN (IF wpReached \/ say THEN 0 ELSE sayStatusCounter + 1)
                     ELSE sayStatusCounter
          IN  /\ nodeErrors' = e1
              /\ currentCommands' = mux.cmds
              /\ parameterProtocolState' = tx.ps
              /\ currentParameter' = tx.cp
              /\ delayCountdown' = tx.dc
              /\ missionProtocolState' = tx.ms
              /\ currentMission' = tx.cm
              /\ missionProtocolRequestCounter' = tx.rc
              /\ transients' = tx.queue
              /\ schedTick' = tx.tick
              /\ sayStatusCounter' = ssc
              /\ History(Op("Tick", 0, 0, 0),
                         mux.out \o wp \o tx.out
                             \o (IF say THEN <<Msg("STATUSTEXT_AUDIO", 0, 0, 0)>> ELSE <<>>),
                         nodeStatus, e1)
    \* 599-601: the counter saturates
    /\ nodeSystemTime' = NextSystemTime(nodeSystemTime)
    /\ pc' = "sense"
    /\ UNCHANGED <<linkVars, sensorVars, nodeStatus, lastErrorState, storeVars>>

\* The fault aggregator, the mode commands and the RTB check.
Next ==
    \/ MainLoopSense(RtbSignals, QuietInputs)
    \/ RecvSetAutoMode
    \/ MavLinkReceive(OneStation, RecvParamSet({"MODE_AUTO"}))
    \/ MainLoopRtbCheck
    \/ MainLoopNoTimer
    \/ PrimaryNode100HzLoop(QuietInputs)

Spec == Init /\ [][Next]_vars

\* The mission protocol and the mode commands, as the messages of the receive
\* phase that follows the first sensor sample.
NextMission ==
    \/ MainLoopSense({"Calibrated"}, QuietInputs)
    \/ RecvSetAutoMode
    \/ MavLinkReceive(OneStation, RecvMissionCount)
    \/ MavLinkReceive(OneStation, RecvMissionItem)
    \/ MavLinkReceive(OneStation, RecvMissionClearAll)
    \/ MavLinkReceive(OneStation, RecvMissionSetCurrent)

SpecMission == Init /\ [][NextMission]_vars

\* The parameter protocol over the main loop: no sensor changes, a tick on
\* every pass, a channel that may have no room for a transient message.
ParamInputs ==
    [rudder |-> {6}, manRc |-> {0}, manTc |-> {1000}, wpReached |-> {FALSE},
     wpSwitched |-> {FALSE}, rooms |-> {0, 1}, ticks |-> ParamTicks]
\* Parameter names a PARAM_SET carries: two of the registry, one unknown.
ParamSetNames == {"MODE_HIL", "MODE_RCDISCON", "MODE_OTHER"}
\* Indices a PARAM_REQUEST_READ carries: two of the registry, one past it.
ParamReadIndices == {0, parameterCount - 1, parameterCount}

NextParam ==
    \/ MainLoopSense({}, ParamInputs)
    \/ MavLinkReceive(OneStation, RecvParamRequestList)
    \/ MavLinkReceive(OneStation, RecvParamRequestRead(ParamReadIndices))
    \/ MavLinkReceive(OneStation, RecvParamSet(ParamSetNames))
    \/ MainLoopRtbCheck
    \/ PrimaryNode100HzLoop(ParamInputs)

SpecParam == Init /\ [][NextParam]_vars

\* The mission download over the main loop: no sensor changes, a tick on
\* every pass, a channel that may have no room for a transient message.
DownloadInputs ==
    [rudder |-> {6}, manRc |-> {0}, manTc |-> {1000}, wpReached |-> {FALSE},
     wpSwitched |-> {FALSE}, rooms |-> {0, 1}, ticks |-> DownloadTicks]
\* Sequence numbers a MISSION_REQUEST carries: those of a list, the one past
\* its end, and one that exceeds eight bits.
DownloadSeqs == 0..MaxMissions \cup {256}

NextDownload ==
    \/ MainLoopSense({}, DownloadInputs)
    \/ MavLinkReceive(OneStation, RecvMissionRequestList)
    \/ MavLinkReceive(OneStation, RecvMissionRequest(DownloadSeqs))
    \/ MainLoopRtbCheck
    \/ PrimaryNode100HzLoop(DownloadInputs)

SpecDownload == Init /\ [][NextDownload]_vars

\* The first ticks of the download of a list the ground station has uploaded
\* before the first tick.
ItemInputs ==
    [rudder |-> {6}, manRc |-> {0}, manTc |-> {1000}, wpReached |-> {FALSE},
     wpSwitched |-> {FALSE}, rooms |-> {0, 1}, ticks |-> ItemTicks]

NextItems ==
    \/ MainLoopSense({}, ItemInputs)
    \/ (nodeSystemTime = 0 /\ MavLinkReceive(OneStation, RecvMissionCount))
    \/ (nodeSystemTime = 0 /\ MavLinkReceive(OneStation, RecvMissionItem))
    \/ MavLinkReceive(OneStation, RecvMissionRequestList)
    \/ MavLinkReceive(OneStation, RecvMissionRequest(DownloadSeqs))
    \/ MainLoopRtbCheck
    \/ PrimaryNode100HzLoop(ItemInputs)

SpecItems == Init /\ [][NextItems]_vars

\* The fault aggregator under changes of the signals whose active edges it
\* follows, and of the enabled signals that guard two of them.
EdgeSignals == ActiveSignals \cup {"rcNodeEnabled", "rudderEnabled"}

NextEdges ==
    \/ MainLoopSense(EdgeSignals, QuietInputs)
    \/ MainLoopRtbCheck
    \/ MainLoopNoTimer
    \/ PrimaryNode100HzLoop(QuietInputs)

SpecEdges == Init /\ [][NextEdges]_vars

\* The fault aggregator under changes of the propulsion and rudder links and
\* of the rudder's calibrated flag, with the mode commands.
LinkSignals == {"propEnabled", "rudderEnabled", "Calibrated"}

NextLinks ==
    \/ MainLoopSense(LinkSignals, QuietInputs)
    \/ RecvSetAutoMode
    \/ MainLoopRtbCheck
    \/ MainLoopNoTimer
    \/ PrimaryNode100HzLoop(QuietInputs)

SpecLinks == Init /\ [][NextLinks]_vars

\* The main loop from boot until the system time counter has stopped, a tick
\* on every pass; the GPS signal changes shortly after boot and around the
\* time GPS_DISCONNECTION_TIME.
TimeInputs ==
    [rudder |-> {6}, manRc |-> {0}, manTc |-> {1000}, wpReached |-> {FALSE},
     wpSwitched |-> {FALSE}, rooms |-> {1}, ticks |-> NodeSystemTimeMax + 1]

GpsMayChange ==
    \/ nodeSystemTime <= GpsWindow
    \/ nodeSystemTime >= GPS_DISCONNECTION_TIME - GpsWindow

NextTime ==
    \/ (GpsMayChange /\ MainLoopSense({"gpsActive"}, TimeInputs))
    \/ (~GpsMayChange /\ MainLoopSense({}, TimeInputs))
    \/ MainLoopRtbCheck
    \/ PrimaryNode100HzLoop(TimeInputs)

SpecTime == Init /\ [][NextTime]_vars

\* The main loop past the startup hold, with the RC transmitter, the rudder
\* calibration and the mode commands changing at boot and from the end of
\* the startup hold on.  The controller commands rudder 6, the manual
\* control rudder 0.
OutputSignals == {"rcNodeEnabled", "rcNodeActive", "Calibrated"}

OutputInputs ==
    [rudder |-> {6}, manRc |-> {0}, manTc |-> {1000}, wpReached |-> {FALSE},
     wpSwitched |-> {FALSE}, rooms |-> {1}, ticks |-> OutputTicks]

OutputMayChange ==
    \/ nodeSystemTime = 0
    \/ nodeSystemTime >= STARTUP_RESET_TIME

NextOutput ==
    \/ (OutputMayChange /\ MainLoopSense(OutputSignals, OutputInputs))
    \/ (~OutputMayChange /\ MainLoopSense({}, OutputInputs))
    \/ (OutputMayChange /\ RecvSetAutoMode)
    \/ MainLoopRtbCheck
    \/ MainLoopNoTimer
    \/ PrimaryNode100HzLoop(OutputInputs)

SpecOutput == Init /\ [][NextOutput]_vars

\* The first ticks after boot with both protocols requested by the ground
\* station, which uploads a list of one item before the first tick and
\* requests the first item of a list that has one.  The channel lets zero, one or two
\* transients through per tick.
QueueInputs ==
    [rudder |-> {6}, manRc |-> {0}, manTc |-> {1000}, wpReached |-> {FALSE},
     wpSwitched |-> {FALSE}, rooms |-> {0, 1, 2}, ticks |-> QueueTicks]

QueueReadIndices == {3}
QueueSeqs == {0}

NextQueue ==
    \/ MainLoopSense({}, QueueInputs)
    \/ (nodeSystemTime = 0 /\ mList = <<>> /\ MavLinkReceive(OneStation, RecvMissionCount)
           /\ mavlinkNewMissionListSize' = 1)
    \/ (nodeSystemTime = 0 /\ mList = <<>>
           /\ MavLinkReceive(OneStation, RecvMissionItem) /\ mList' = <<1>>)
    \/ MavLinkReceive(OneStation, RecvParamRequestList)
    \/ MavLinkReceive(OneStation, RecvParamRequestRead(QueueReadIndices))
    \/ MavLinkReceive(OneStation, RecvMissionRequestList)
    \/ (mList # <<>> /\ MavLinkReceive(OneStation, RecvMissionRequest(QueueSeqs)))
    \/ MainLoopRtbCheck
    \/ PrimaryNode100HzLoop(QueueInputs)

SpecQueue == Init /\ [][NextQueue]_vars

\* The first ticks after boot with two stations sending on the channel.
Stations == {GroundStation, OtherStation}

NextStations ==
    \/ MainLoopSense({}, QuietInputs)
    \/ MavLinkReceive(Stations, RecvParamRequestList)
    \/ MavLinkReceive(Stations, RecvMissionRequestList)
    \/ MavLinkReceive(Stations, RecvMissionCount)
    \/ MavLinkReceive(Stations, RecvMissionClearAll)
    \/ MainLoopRtbCheck
    \/ MainLoopNoTimer
    \/ PrimaryNode100HzLoop(QuietInputs)

SpecStations == Init /\ [][NextStations]_vars

\* The fault aggregator under changes of the enabled signals of the four
\* subsystems and of the rudder calibration, with mode commands.
NextEnable ==
    \/ MainLoopSense(EnableSignals \cup {"Calibrated"}, QuietInputs)
    \/ RecvSetAutoMode
    \/ MainLoopRtbCheck
    \/ MainLoopNoTimer
    \/ PrimaryNode100HzLoop(QuietInputs)

SpecEnable == Init /\ [][NextEnable]_vars

\* The download of a list of two items, uploaded before the first tick, by a
\* ground station that requests the first item only, after the count has been
\* transmitted, and may repeat the request while the item is awaited.  The
\* channel lets zero or one transient through per tick.
RepeatInputs ==
    [rudder |-> {6}, manRc |-> {0}, manTc |-> {1000}, wpReached |-> {FALSE},
     wpSwitched |-> {FALSE}, rooms |-> {0, 1}, ticks |-> RepeatTicks]

RepeatSeqs == {0}

NextRepeat ==
    \/ MainLoopSense({}, RepeatInputs)
    \/ (nodeSystemTime = 0 /\ mList = <<>>
           /\ MavLinkReceive(OneStation, RecvMissionCount)
           /\ mavlinkNewMissionListSize' = 2)
    \/ (nodeSystemTime = 0 /\ Len(mList) < 2
           /\ MavLinkReceive(OneStation, RecvMissionItem)
           /\ mList' \in {<<1>>, <<1, 2>>})
    \/ (Len(mList) = 2 /\ MavLinkReceive(OneStation, RecvMissionRequestList))
    \/ (missionProtocolState \in {"REQUEST_LIST_COUNTDOWN", "REQUEST_LIST_WAITING"}
           /\ MavLinkReceive(OneStation, RecvMissionRequest(RepeatSeqs)))
    \/ MainLoopRtbCheck
    \/ PrimaryNode100HzLoop(RepeatInputs)

SpecRepeat == Init /\ [][NextRepeat]_vars

\* The end of a download of a list of two items, uploaded before the first
\* tick.  During the first PeerTicks ticks the ground station
\* sends list and item requests in any order and the channel may defer the
\* queued transients; after that the ground station is silent and the channel
\* lets one transient through per tick.  The main loop does not stall between
\* its receive step and its timer check; that the timer keeps firing, up to
\* the LiveTicks ticks followed, is a hypothesis of the properties checked.
LiveInputs ==
    [rudder |-> {6}, manRc |-> {0}, manTc |-> {1000}, wpReached |-> {FALSE},
     wpSwitched |-> {FALSE}, rooms |-> {1}, ticks |-> LiveTicks]

DeferInputs == [LiveInputs EXCEPT !.rooms = {0}]

LiveSeqs == {0, 1}

NextLive ==
    \/ MainLoopSense({}, LiveInputs)
    \/ (nodeSystemTime = 0 /\ mList = <<>>
           /\ MavLinkReceive(OneStation, RecvMissionCount)
           /\ mavlinkNewMissionListSize' = 2)
    \/ (nodeSystemTime = 0 /\ Len(mList) < 2
           /\ MavLinkReceive(OneStation, RecvMissionItem)
           /\ mList' \in {<<1>>, <<1, 2>>})
    \/ (nodeSystemTime < PeerTicks /\ Len(mList) = 2
           /\ MavLinkReceive(OneStation, RecvMissionRequestList))
    \/ (nodeSystemTime < PeerTicks /\ Len(mList) = 2
           /\ MavLinkReceive(OneStation, RecvMissionRequest(LiveSeqs)))
    \/ MainLoopRtbCheck
    \/ (Len(mList) = 2 /\ PrimaryNode100HzLoop(LiveInputs))
    \/ (Len(mList) = 2 /\ nodeSystemTime < PeerTicks /\ PrimaryNode100HzLoop(DeferInputs))

SpecLive == Init /\ [][NextLive]_vars /\ WF_vars(MainLoopRtbCheck)

\* Clearing the store at any point: in either mode, during an upload, a
\* download or a parameter stream.  The upload is one of two items, sent
\* before the first tick.
NextClear ==
    \/ MainLoopSense({"Calibrated"}, QuietInputs)
    \/ RecvSetAutoMode
    \/ MavLinkReceive(OneStation, RecvParamRequestList)
    \/ MavLinkReceive(OneStation, RecvMissionRequestList)
    \/ (nodeSystemTime = 0
           /\ MavLinkReceive(OneStation, RecvMissionCount)
           /\ mavlinkNewMissionListSize' = 2)
    \/ (nodeSystemTime = 0
           /\ MavLinkReceive(OneStation, RecvMissionItem)
           /\ mList' \in {<<1>>, <<1, 2>>})
    \/ MavLinkReceive(OneStation, RecvMissionClearAll)
    \/ MainLoopRtbCheck
    \/ PrimaryNode100HzLoop(QuietInputs)

SpecClear == Init /\ [][NextClear]_vars

(***************************************************************************)
(* What a step sent                                                        *)
(***************************************************************************)
\* The neutral actuator command of PrimaryNode.c:456.
NeutralCommand == Msg("ACTUATORS", 0, 0, 1)
Neutral(o) == \E i \in 1..Len(o) : o[i] = NeutralCommand
\* The RTB notification of PrimaryNode.c:460-465.
Notified(o) == \E i \in 1..Len(o) : o[i].t = "STATUSTEXT_RTB"

(***************************************************************************)
(* Mode changes and the RTB check, under Spec                              *)
(***************************************************************************)
\* C1: SetAutoMode(AUTONOMOUS), called while the vehicle is manual and an
\* RTB-qualifying fault is set, changes nothing: the autonomous flag stays
\* clear, nodeErrors and the parameter FSM are unchanged, nothing is sent.
C1_RefusedEntryIsNoOp ==
    [][(/\ op'.name = "SetAutoMode" /\ op'.a = ModeNum("AUTONOMOUS")
        /\ ~IS_AUTONOMOUS(nodeStatus) /\ Rtb(nodeErrors) # {})
       => (/\ nodeStatus' = nodeStatus
           /\ nodeErrors' = nodeErrors
           /\ parameterProtocolState' = parameterProtocolState
           /\ sayStatusCounter' = sayStatusCounter
           /\ out' = <<>>)]_vars

\* A refused SetAutoMode(AUTONOMOUS) has just returned.
C1_Witness ==
    /\ op.name = "SetAutoMode" /\ op.a = ModeNum("AUTONOMOUS")
    /\ out = <<>>
    /\ ~IS_AUTONOMOUS(nodeStatus) /\ Rtb(nodeErrors) # {}

\* C2: no step takes the vehicle from manual to autonomous while an
\* RTB-qualifying fault is set, a PARAM_SET of MODE_AUTO included.
C2_NoEntryWhileRtb ==
    [][(~IS_AUTONOMOUS(nodeStatus) /\ IS_AUTONOMOUS(nodeStatus'))
       => Rtb(nodeErrors) = {}]_vars

\* C7 as stated: a pass that finds the vehicle autonomous with an
\* RTB-qualifying fault, where the previous pass saw no such fault, sends the
\* notification.  Stated of the runs in which no PARAM_SET has written the
\* mode, where autonomy is entered through SetAutoMode alone.
C7_FiresOnEveryRisingEdge ==
    [][(/\ op'.name = "RtbCheck"
        /\ ~modeSetByParam
        /\ IS_AUTONOMOUS(nodeStatus) /\ Rtb(nodeErrors) # {}
        /\ Rtb(lastErrorState) = {})
       => Notified(out')]_vars

\* C7 as amended: a pass sends the notification exactly when the bitmask has
\* changed since the previous pass, the vehicle is autonomous, an
\* RTB-qualifying fault is set and the RTB bit is not yet set; the pass sets
\* the RTB bit, and no later pass sends the notification again while the
\* vehicle stays autonomous.
C7_FiresOnceWhileAutonomous ==
    [][/\ op'.name = "RtbCheck"
          => /\ Notified(out') <=> (/\ nodeErrors # lastErrorState
                                    /\ IS_AUTONOMOUS(nodeStatus)
                                    /\ Rtb(nodeErrors) # {}
                                    /\ "RTB" \notin nodeErrors)
             /\ Notified(out') => "RTB" \in nodeErrors'
       /\ Notified(out') => (op'.name = "RtbCheck" /\ rtbLog = 0)]_vars

\* A pass that changes other fault bits while the vehicle stays autonomous
\* with an RTB-qualifying fault, after the notification: nothing is re-sent.
C7_Witness ==
    /\ op.name = "RtbCheck"
    /\ rtbLog = 1
    /\ Neutral(out) /\ ~Notified(out)
    /\ Cardinality(Rtb(nodeErrors)) >= 2

\* C8 as stated: the pass that sees the re-trigger of a clear-then-re-trigger
\* cycle of the RTB-qualifying faults, the vehicle autonomous throughout,
\* sends the notification again.  Stated of the runs in which no PARAM_SET
\* has written the mode.
C8_FiresAgainAfterRetrigger ==
    [][(/\ op'.name = "RtbCheck"
        /\ ~modeSetByParam
        /\ rtbLog = 3 /\ nodeErrors # lastErrorState)
       => Notified(out')]_vars

\* C8 as amended: the pass that sees the re-trigger of a clear-then-re-trigger
\* cycle, the vehicle autonomous throughout, re-issues the neutral command
\* but not the notification; the RTB bit that holds the notification back is
\* cleared only by SetAutoMode taking the vehicle out of autonomous mode,
\* which always clears it.
C8_RetriggerNeedsModeExit ==
    [][/\ (op'.name = "RtbCheck" /\ rtbLog = 3)
          => /\ ~Notified(out')
             /\ nodeErrors # lastErrorState => Neutral(out')
       /\ ("RTB" \in nodeErrors /\ "RTB" \notin nodeErrors')
          => (/\ op'.name = "SetAutoMode"
              /\ IS_AUTONOMOUS(nodeStatus) /\ ~IS_AUTONOMOUS(nodeStatus'))
       /\ (op'.name = "SetAutoMode" /\ IS_AUTONOMOUS(nodeStatus))
          => (~IS_AUTONOMOUS(nodeStatus') /\ "RTB" \notin nodeErrors')]_vars

\* The pass that sees the re-trigger has run.
C8_Witness ==
    /\ op.name = "RtbCheck"
    /\ rtbLog = 3
    /\ "RTB" \in nodeErrors
    /\ Neutral(out)

\* C9: every pass that finds the bitmask changed since the previous pass,
\* the vehicle autonomous and an RTB-qualifying fault set issues the neutral
\* actuator command; every pass leaves lastErrorState equal to the bitmask.
C9_NeutralOnEveryChange ==
    [][op'.name = "RtbCheck"
       => /\ (/\ nodeErrors # lastErrorState
              /\ IS_AUTONOMOUS(nodeStatus)
              /\ Rtb(nodeErrors) # {}) => Neutral(out')
          /\ lastErrorState' = nodeErrors']_vars

\* The neutral command issued again by a pass that sends no notification.
C9_Witness ==
    /\ op.name = "RtbCheck"
    /\ Neutral(out) /\ ~Notified(out)
    /\ "RTB" \in nodeErrors /\ IS_AUTONOMOUS(nodeStatus)

\* C10: the RTB bit is set only while the vehicle is autonomous.
C10_RtbOnlyWhileAutonomous ==
    "RTB" \in nodeErrors => IS_AUTONOMOUS(nodeStatus)

\* C11: SetAutoMode changes the mode and the fault bits only when the
\* requested mode differs from the current one; SetAutoMode(AUTONOMOUS) on an
\* autonomous vehicle leaves it autonomous.
C11_SetAutoModeIdempotent ==
    [][(/\ op'.name = "SetAutoMode"
        /\ (op'.a = ModeNum("AUTONOMOUS")) <=> IS_AUTONOMOUS(nodeStatus))
       => (nodeStatus' = nodeStatus /\ nodeErrors' = nodeErrors)]_vars

(***************************************************************************)
(* The mission upload, under SpecMission                                   *)
(***************************************************************************)
\* C3: while the vehicle is autonomous a MISSION_COUNT is answered with an
\* error acknowledgment, and neither it nor a MISSION_ITEM changes the
\* contents, the size or the current index of the mission store.
C3_NoUploadWhileAutonomous ==
    [][(IS_AUTONOMOUS(nodeStatus) /\ op'.name \in {"MISSION_COUNT", "MISSION_ITEM"})
       => (/\ mList' = mList
           /\ currentMissionIndex' = currentMissionIndex
           /\ op'.name = "MISSION_COUNT"
              => out' = <<Msg("MISSION_ACK_ERROR", 0, 0, 0)>>)]_vars

\* C4: when an upload of count C, 1 <= C <= capacity, begun in manual mode
\* over any store, has delivered its items 0..C-1 in order, only the last
\* flagged current, the store holds exactly those C items in order and its
\* current index is C-1.
C4_UploadInOrder ==
    (upload.active /\ Len(upload.items) = upload.count)
    => (/\ mList = upload.items
        /\ GetMissionCount(mList) = upload.count
        /\ currentMissionIndex = upload.count - 1)

\* An upload that fills the store has just delivered its last item.
C4_Witness ==
    /\ op.name = "MISSION_ITEM"
    /\ upload.active
    /\ upload.count = MaxMissions
    /\ Len(upload.items) = upload.count
    /\ upload.items[1] # upload.items[MaxMissions]

\* C5: a MISSION_ITEM whose seq differs from the size of the store is
\* answered with an 'invalid sequence' acknowledgment and leaves the contents
\* and the current index of the store as they were, flagged current or not.
C5_InvalidSequenceNoMutation ==
    [][(op'.name = "MISSION_ITEM" /\ op'.a # GetMissionCount(mList))
       => (/\ out' = <<Msg("MISSION_ACK_INVALID_SEQUENCE", 0, 0, 0)>>
           /\ mList' = mList
           /\ currentMissionIndex' = currentMissionIndex)]_vars

\* An item flagged current, whose seq names a stored item other than the
\* current one, has been refused.
C5_Witness ==
    /\ op.name = "MISSION_ITEM" /\ op.b = 1
    /\ op.a < GetMissionCount(mList)
    /\ op.a # currentMissionIndex
    /\ out = <<Msg("MISSION_ACK_INVALID_SEQUENCE", 0, 0, 0)>>

\* C6: in an upload of count C the item that completes the total (seq C-1) is
\* answered with an 'accepted' acknowledgment, every earlier item of seq s
\* with a request for seq s+1, and an item that finds the store full with a
\* 'no space' acknowledgment.
C6_RepliesOfUpload ==
    [][/\ (op'.name = "MISSION_ITEM" /\ upload'.active)
          => out' = IF op'.a = upload.count - 1
                    THEN <<Msg("MISSION_ACK_ACCEPTED", 0, 0, 0)>>
                    ELSE <<Msg("MISSION_REQUEST", op'.a + 1, 0, 0)>>
       /\ (/\ op'.name = "MISSION_ITEM"
           /\ op'.a = GetMissionCount(mList)
           /\ GetMissionCount(mList) = MaxMissions)
          => out' = <<Msg("MISSION_ACK_NO_SPACE", 0, 0, 0)>>]_vars

(***************************************************************************)
(* The parameter protocol, under SpecParam                                 *)
(***************************************************************************)
StreamStates ==
    {"STREAM_TRANSMIT_START", "STREAM_TRANSMIT_PARAM", "STREAM_TRANSMIT_WAITING",
     "STREAM_TRANSMIT_DELAY"}
SingleStates == {"SINGLETON_TRANSMIT_START", "SINGLETON_TRANSMIT_WAITING"}
ParamRequests == {"PARAM_REQUEST_LIST", "PARAM_REQUEST_READ", "PARAM_SET"}

\* C12: a stream requested from Inactive transmits the PARAM_VALUE of the
\* indices 0, 1, 2, 3 in that order, each once: what has been sent is always
\* the first currentParameter indices, currentParameter never exceeds the
\* parameter count, and the FSM is back in Inactive only with all four sent
\* and nothing after them.
C12_StreamInOrder ==
    paramLog.kind = "list" =>
        /\ parameterProtocolState \in StreamStates \cup {"INACTIVE"}
        /\ parameterProtocolState \in StreamStates \ {"STREAM_TRANSMIT_START"} =>
               /\ currentParameter <= parameterCount
               /\ paramLog.sent = [i \in 1..currentParameter |-> i - 1]
        /\ parameterProtocolState = "STREAM_TRANSMIT_START" => paramLog.sent = <<>>
        /\ parameterProtocolState = "INACTIVE" => paramLog.sent = <<0, 1, 2, 3>>

C12_Witness ==
    /\ paramLog.kind = "list"
    /\ parameterProtocolState = "INACTIVE"
    /\ paramLog.sent = <<0, 1, 2, 3>>
    /\ op.name = "Tick"

\* C13 as stated: in a stream, a PARAM_VALUE is sent on the 10th
\* MavLinkTransmit invocation after the previous one, when no transient was
\* deferred in between.
C13_TenInvocationsApart ==
    [][(op'.name = "Tick" /\ paramLog.gap # -1 /\ paramLog'.gap = 0)
       => paramLog.gap + 1 = 10]_vars

\* C13: in a stream, a PARAM_VALUE is sent on the 11th MavLinkTransmit
\* invocation after the previous one, when no transient was deferred in
\* between: the ten invocations of the delay lie between the two sends.
C13_ElevenInvocationsApart ==
    [][(op'.name = "Tick" /\ paramLog.gap # -1 /\ paramLog'.gap = 0)
       => paramLog.gap + 1 = 11]_vars

\* The fourth value of a stream requested before the first tick, no value
\* deferred: sent by the invocations 2, 13, 24 and 35.
C13_Witness ==
    /\ paramLog.kind = "list"
    /\ paramLog.sent = <<0, 1, 2, 3>>
    /\ paramLog.gap = 0
    /\ nodeSystemTime = 35

\* C14: a PARAM_REQUEST_LIST, PARAM_REQUEST_READ or PARAM_SET received while
\* the parameter FSM is not Inactive changes neither the FSM state, nor the
\* index, nor the stored values, and nothing is transmitted or queued.
C14_BusyRequestIsNoOp ==
    [][(op'.name \in ParamRequests /\ parameterProtocolState # "INACTIVE")
       => /\ UNCHANGED <<parameterProtocolState, currentParameter, delayCountdown,
                         nodeStatus, transients>>
          /\ out' = <<>>]_vars

\* A single-parameter request received during the delay of a stream.
C14_Witness ==
    /\ op.name = "PARAM_REQUEST_READ"
    /\ parameterProtocolState = "STREAM_TRANSMIT_DELAY"
    /\ paramLog.kind = "list"

C16_SetAnsweredOnce ==
    paramLog.kind = "set" => Len(paramLog.sent) = 1

\* C17: a PARAM_SET that names no registered parameter changes neither the
\* stored values, nor the FSM state, nor the index, and nothing is transmitted
\* or queued.
C17_UnknownSetIgnored ==
    [][(op'.name = "PARAM_SET" /\ op'.a = 0)
       => /\ UNCHANGED <<parameterProtocolState, currentParameter, nodeStatus,
                         transients>>
          /\ out' = <<>>]_vars

(***************************************************************************)
(* The mission download, under SpecDownload and SpecItems                  *)
(***************************************************************************)
MissionSent(outv) ==
    \E i \in 1..Len(outv) : outv[i].t \in {"MISSION_COUNT", "MISSION_ITEM"}

\* A MISSION_REQUEST_LIST acts only in Inactive, where it moves the FSM to
\* ListStart; the next MavLinkTransmit schedules the MISSION_COUNT and moves
\* to ListCountdown; the n-th consecutive MavLinkTransmit begun in
\* ListCountdown, and no other, reverts the FSM to Inactive, and sends no
\* mission message.
CountdownRevertAt(n) ==
    /\ op'.name = "MISSION_REQUEST_LIST"
          => /\ missionProtocolState' = IF missionProtocolState = "INACTIVE"
                                        THEN "REQUEST_LIST_START"
                                        ELSE missionProtocolState
             /\ UNCHANGED <<currentMission, missionProtocolRequestCounter, transients>>
             /\ out' = <<>>
    /\ (op'.name = "Tick" /\ missionProtocolState = "REQUEST_LIST_START")
          => /\ missionProtocolState' = "REQUEST_LIST_COUNTDOWN"
             /\ \/ \E i \in 1..Len(out') : out'[i].t = "MISSION_COUNT"
                \/ \E i \in 1..Len(transients') : transients'[i] = "MISSION_COUNT"
    /\ (op'.name = "Tick" /\ missionProtocolState = "REQUEST_LIST_COUNTDOWN"
           /\ countdownTicks' # -1)
          => /\ missionProtocolState' \in {"REQUEST_LIST_COUNTDOWN", "INACTIVE"}
             /\ missionProtocolState' = "INACTIVE" <=> countdownTicks' = n
             /\ ~MissionSent(out')

\* C18 as stated: the revert to Inactive happens on the 21st consecutive
\* MavLinkTransmit invocation in ListCountdown.
C18_RevertOn21st == [][CountdownRevertAt(21)]_vars

\* C18: a mission list request is accepted only from Inactive; with the count
\* announcement scheduled and no item request advancing the session, the FSM
\* reverts to Inactive on the 22nd consecutive MavLinkTransmit invocation in
\* ListCountdown, after 21 invocations that left it there, and sends no
\* mission message on the revert.
C18_RevertOn22nd == [][CountdownRevertAt(22)]_vars

C18_Witness ==
    /\ op.name = "Tick"
    /\ missionProtocolState = "INACTIVE"
    /\ countdownTicks = 22

\* C19: during a download, a MISSION_REQUEST whose seq is not the index being
\* served changes neither the FSM state, nor the served index, nor the
\* countdown.
C19_OtherSeqIgnored ==
    [][(op'.name = "MISSION_REQUEST" /\ missionProtocolState # "INACTIVE"
          /\ op'.a # currentMission)
       => UNCHANGED missionFsmVars]_vars

(***************************************************************************)
(* The active edges of the fault aggregator, under SpecEdges               *)
(***************************************************************************)
\* The fault bit that follows each active signal (PrimaryNode.c:292-299,
\* 376-391, 397-404).
FaultBitOf ==
    [gpsActive |-> "GPS_INVALID", rcNodeActive |-> "MANUAL_OVERRIDE",
     rudderActive |-> "RUDDER_ERRORS"]

\* The bits of nodeErrors and nodeStatus written on an edge of a signal.
EdgeErrorBits ==
    {"GPS_INVALID", "ESTOP_OR_ACS300_DISCON", "RUDDER_DISCONNECTED",
     "DST800_DISCONNECTED", "IMU_DISCONNECTED", "MANUAL_OVERRIDE", "RUDDER_ERRORS"}
EdgeStatusBits == {"RC_NODE_DISCONNECTED"}

\* The pass has sampled f true after a pass that sampled it false, and an
\* earlier pass has seen f go from true to false.
RoseAfterFall(f) ==
    /\ op'.name = "Sense"
    /\ f \in fell
    /\ ~sensorAvailability[f]
    /\ sensorAvailability'[f]

\* The pass has sampled what the previous pass sampled, and leaves the bits
\* written on edges as they were.
SameSnapshotSameBits ==
    (op'.name = "Sense" /\ sensorAvailability' = sensorAvailability)
        => /\ nodeErrors' \cap EdgeErrorBits = nodeErrors \cap EdgeErrorBits
           /\ nodeStatus' \cap EdgeStatusBits = nodeStatus \cap EdgeStatusBits

C21_RudderClearNeedsEnabled ==
    [][op'.name = "Sense"
       => /\ "RUDDER_ERRORS" \in nodeErrors
               => ("RUDDER_ERRORS" \notin nodeErrors'
                      <=> (sensorAvailability'.rudderEnabled
                             /\ sensorAvailability'.rudderActive))
          /\ sensorAvailability'.gpsActive => "GPS_INVALID" \notin nodeErrors']_vars

\* The rudder active again, not enabled, after a true-to-false transition:
\* the bit is still set.
C21_Witness ==
    /\ op.name = "Sense"
    /\ "rudderActive" \in fell
    /\ sensorAvailability.rudderActive
    /\ ~sensorAvailability.rudderEnabled
    /\ "RUDDER_ERRORS" \in nodeErrors

(***************************************************************************)
(* The link edges of the fault aggregator, under SpecLinks                 *)
(***************************************************************************)
\* The pass has sampled the enabled signal f false after a pass that sampled
\* it true.
LinkLost(f) ==
    op'.name = "Sense" /\ sensorAvailability[f] /\ ~sensorAvailability'[f]

\* The pass has sampled the enabled signal f true after a pass that sampled
\* it false.
LinkBack(f) ==
    op'.name = "Sense" /\ ~sensorAvailability[f] /\ sensorAvailability'[f]

\* The step has cleared the bit.
Cleared(bit) == bit \in nodeErrors /\ bit \notin nodeErrors'

GpsSilence == nodeSystemTime' - sensorAvailability'.gpsLastActive

\* C22: only an aggregator pass changes the GPS-disconnected bit; a pass that
\* samples the GPS active leaves it clear, whatever the GPS-invalid bit; a
\* pass that samples the GPS inactive leaves it set if it was set, and sets it
\* exactly when the time since the GPS was last active has reached the 1000
\* ticks of GPS_DISCONNECTION_TIME.
C22_GpsTimeout ==
    [][/\ op'.name # "Sense"
             => ("GPS_DISCONNECTED" \in nodeErrors' <=> "GPS_DISCONNECTED" \in nodeErrors)
       /\ (op'.name = "Sense" /\ sensorAvailability'.gpsActive)
             => "GPS_DISCONNECTED" \notin nodeErrors'
       /\ (op'.name = "Sense" /\ ~sensorAvailability'.gpsActive)
             => /\ "GPS_DISCONNECTED" \in nodeErrors => "GPS_DISCONNECTED" \in nodeErrors'
                /\ "GPS_DISCONNECTED" \notin nodeErrors
                      => ("GPS_DISCONNECTED" \in nodeErrors'
                             <=> GpsSilence = GPS_DISCONNECTION_TIME)
                /\ GpsSilence >= GPS_DISCONNECTION_TIME
                      => "GPS_DISCONNECTED" \in nodeErrors']_vars

\* The timeout of a GPS that was active after boot and then lost: both GPS
\* bits are set, 1000 ticks after the GPS was last active.
C22_Witness ==
    /\ op.name = "Sense"
    /\ sensorAvailability.gpsLastActive > 0
    /\ nodeSystemTime = sensorAvailability.gpsLastActive + GPS_DISCONNECTION_TIME
    /\ {"GPS_DISCONNECTED", "GPS_INVALID"} \subseteq nodeErrors

\* C30: the startup bit is set exactly while the system time is between 1 and
\* 200, that is from the tick at system time 0 to the tick at system time
\* 200, and the system time never goes back: it stops at its largest value.
C30_StartupHoldOnce ==
    [][/\ nodeSystemTime' >= nodeSystemTime
       /\ "STARTUP" \in nodeErrors' <=> nodeSystemTime' \in 1..STARTUP_RESET_TIME
       /\ (op'.name = "Tick" /\ nodeSystemTime = NodeSystemTimeMax)
             => nodeSystemTime' = NodeSystemTimeMax]_vars

\* A tick with the counter at its largest value.
C30_Witness ==
    /\ op.name = "Tick"
    /\ nodeSystemTime = NodeSystemTimeMax
    /\ schedTick = (NodeSystemTimeMax + 1) % SchedCycle
    /\ "STARTUP" \notin nodeErrors

(***************************************************************************)
(* The actuator output, under SpecOutput                                   *)
(***************************************************************************)
\* The actuator commands among the messages o.
Actuators(o) == SelectSeq(o, LAMBDA m : m.t = "ACTUATORS")

\* The RC transmitter was active at the last pass and is inactive at the
\* sample of the step.
RcFell == lastSensorAvailability.rcNodeActive /\ ~sensorAvailability'.rcNodeActive

CountOf(t, o) == Len(SelectSeq(o, LAMBDA m : m.t = t))

TransientIds == {"PARAM_VALUE", "MISSION_COUNT", "MISSION_ITEM"}

\* The types of the transient messages among the messages o, in order.
SentTransients(o) ==
    LET sel == SelectSeq(o, LAMBDA m : m.t \in TransientIds)
    IN  [i \in 1..Len(sel) |-> sel[i].t]

\* The transient queue after the two protocol steps of MavLinkTransmit.
Queued ==
    MissionProtocolStep(missionProtocolState, currentMission,
                        missionProtocolRequestCounter,
                        ParameterProtocolStep(parameterProtocolState, currentParameter,
                                              delayCountdown, transients).queue).queue

C27_RequestRestartsSession ==
    [][/\ (op'.name = "MISSION_REQUEST_LIST" /\ missionProtocolState # "INACTIVE")
            => missionProtocolState' = "REQUEST_LIST_START"
       /\ (op'.name = "PARAM_REQUEST_LIST" /\ parameterProtocolState # "INACTIVE")
            => parameterProtocolState' = "STREAM_TRANSMIT_START"]_vars

\* C27 as the code has it: a list request received while its protocol is not
\* Inactive leaves the session in progress as it is.
C27_RequestLeavesSession ==
    [][/\ (op'.name = "MISSION_REQUEST_LIST" /\ missionProtocolState # "INACTIVE")
            => UNCHANGED <<missionFsmVars, paramVars, transients>>
       /\ (op'.name = "PARAM_REQUEST_LIST" /\ parameterProtocolState # "INACTIVE")
            => UNCHANGED <<missionFsmVars, paramVars, transients>>]_vars

\* A mission list request received after the first item of a download has
\* been sent.
C27_Witness ==
    /\ op.name = "MISSION_REQUEST_LIST"
    /\ missionProtocolState = "REQUEST_LIST_COUNTDOWN"
    /\ currentMission = 1

(***************************************************************************)
(* The ground station latch, under SpecStations                            *)
(***************************************************************************)
\* A station has been latched onto.
Latched == groundStationSystemId # 0 \/ groundStationComponentId # 0

\* The steps that handle an inbound message.
InboundMessages ==
    {"PARAM_REQUEST_LIST", "MISSION_REQUEST_LIST", "MISSION_COUNT", "MISSION_CLEAR_ALL"}

\* The stored ids are those of the first message parsed and never change
\* afterwards.
C28_LatchIsStable ==
    [][/\ Latched => UNCHANGED <<groundStationSystemId, groundStationComponentId>>
       /\ (~Latched /\ op'.name \in InboundMessages)
            => /\ groundStationSystemId' = msg'.sysid
               /\ groundStationComponentId' = msg'.compid]_vars

\* C28: once a station is latched, a message from another system id changes
\* neither the protocol state machines, nor the mission store, nor the
\* transient queue, and is not replied to.
C28_OtherSenderIgnored ==
    [][(op'.name \in InboundMessages /\ Latched
           /\ msg'.sysid # groundStationSystemId)
          => /\ UNCHANGED <<paramVars, missionFsmVars, storeVars, transients>>
             /\ out' = <<>>]_vars

\* A message of the second station handled after the ground station has been
\* latched.
C28_Witness ==
    /\ op.name \in InboundMessages
    /\ groundStationSystemId = GroundStation.sysid
    /\ msg = OtherStation

(***************************************************************************)
(* The reported actuator command, under SpecOutput                         *)
(***************************************************************************)
\* C31: after a 100 Hz step, when a fault other than the manual override is
\* set and the override is clear, the step has transmitted no actuator
\* command; and when the step has transmitted a command,
\* GetCurrentActuatorCommands reports the rudder and throttle of that command.
C31_ReportMatchesMux ==
    op.name = "Tick"
       => LET g == GetCurrentActuatorCommands(nodeStatus, nodeErrors, currentCommands)
              sent == Actuators(out)
          IN  /\ (nodeErrors # {} /\ "MANUAL_OVERRIDE" \notin nodeErrors) => sent = <<>>
              /\ sent # <<>> => (sent[1].a = g.rudderAngle /\ sent[1].b = g.throttle)

\* In autonomous mode the report and the mux agree: a command is transmitted
\* exactly when no fault is set, and it is the command reported.
C31_AutonomousReportMatchesMux ==
    (op.name = "Tick" /\ IS_AUTONOMOUS(nodeStatus))
       => LET g == GetCurrentActuatorCommands(nodeStatus, nodeErrors, currentCommands)
              sent == Actuators(out)
          IN  /\ nodeErrors # {} => sent = <<>>
              /\ sent # <<>> => (sent[1].a = g.rudderAngle /\ sent[1].b = g.throttle)

(***************************************************************************)
(* The manual override, under SpecEdges                                    *)
(***************************************************************************)
\* C32: the manual-override bit is set exactly while the remembered active
\* flag of the RC node is true.  It becomes set only in an aggregator pass
\* that samples the RC node enabled and active with the remembered flag
\* false, and becomes clear only in, and in every, aggregator pass that
\* samples the RC node inactive with the remembered flag true.
C32_OverrideFollowsRcActive ==
    [][/\ "MANUAL_OVERRIDE" \in nodeErrors' <=> lastSensorAvailability'.rcNodeActive
       /\ ("MANUAL_OVERRIDE" \notin nodeErrors /\ "MANUAL_OVERRIDE" \in nodeErrors')
            => /\ op'.name = "Sense"
               /\ sensorAvailability'.rcNodeEnabled
               /\ sensorAvailability'.rcNodeActive
               /\ ~lastSensorAvailability.rcNodeActive
       /\ ("MANUAL_OVERRIDE" \in nodeErrors /\ "MANUAL_OVERRIDE" \notin nodeErrors')
            => /\ op'.name = "Sense"
               /\ ~sensorAvailability'.rcNodeActive
       /\ (op'.name = "Sense" /\ lastSensorAvailability.rcNodeActive
              /\ ~sensorAvailability'.rcNodeActive)
            => "MANUAL_OVERRIDE" \notin nodeErrors']_vars

\* An aggregator pass that leaves the override set.
C32_Witness ==
    /\ op.name = "Sense"
    /\ "MANUAL_OVERRIDE" \in nodeErrors
    /\ lastSensorAvailability.rcNodeActive
    /\ sensorAvailability.rcNodeEnabled

(***************************************************************************)
(* Autonomy under faults, under Spec                                       *)
(***************************************************************************)
\* C33: after the RTB check of a pass, an autonomous node with a fault of
\* the RTB mask set has the RTB bit set.
C33_AutonomousFaultIsRtb ==
    (pc = "timer" /\ IS_AUTONOMOUS(nodeStatus) /\ nodeErrors \cap RTB_RESET_MASK # {})
       => "RTB" \in nodeErrors

\* The same, as long as the mode has been set through SetAutoMode only.
C33_SetAutoModeFaultIsRtb ==
    (~modeSetByParam /\ pc = "timer" /\ IS_AUTONOMOUS(nodeStatus)
        /\ nodeErrors \cap RTB_RESET_MASK # {})
       => "RTB" \in nodeErrors

(***************************************************************************)
(* The disconnect bits, under SpecEnable                                   *)
(***************************************************************************)
DisconnectBitOf(f) ==
    CASE f = "propEnabled" -> "ESTOP_OR_ACS300_DISCON"
      [] f = "rudderEnabled" -> "RUDDER_DISCONNECTED"
      [] f = "dst800Enabled" -> "DST800_DISCONNECTED"
      [] f = "imuEnabled" -> "IMU_DISCONNECTED"

\* C34: the disconnect bit of a subsystem is set only if a pass has sampled
\* the subsystem enabled; and a command to enter autonomous mode, given in
\* manual mode while no subsystem has ever been sampled enabled and no other
\* fault of the RTB mask is set, is obeyed.
C34_DisconnectNeedsEnabledSeen ==
    [][/\ \A f \in EnableSignals :
             DisconnectBitOf(f) \in nodeErrors' => f \in enabledSeen'
       /\ (op'.name = "SetAutoMode" /\ op'.a = 1 /\ ~IS_AUTONOMOUS(nodeStatus)
              /\ enabledSeen = {}
              /\ nodeErrors \cap {"GPS_DISCONNECTED", "RUDDER_ERRORS", "UNCALIBRATED",
                                   "GCS_DISCONNECTED"} = {})
            => IS_AUTONOMOUS(nodeStatus')]_vars

\* Autonomous mode entered while none of the four subsystems has ever been
\* sampled enabled.
C34_Witness ==
    /\ op.name = "SetAutoMode"
    /\ IS_AUTONOMOUS(nodeStatus)
    /\ enabledSeen = {}
    /\ \A f \in EnableSignals : ~sensorAvailability[f]

(***************************************************************************)
(* Repeated item requests, under SpecRepeat                                *)
(***************************************************************************)
\* The sequence numbers of the MISSION_ITEM messages among the messages o.
ItemSeqs(o) == {o[i].a : i \in {j \in 1..Len(o) : o[j].t = "MISSION_ITEM"}}

\* C35: every MISSION_ITEM a tick transmits carries a sequence number the
\* ground station has requested; here the ground station requests sequence
\* number 0 only, during a download.
C35_OnlyRequestedItems ==
    op.name = "Tick" => ItemSeqs(out) \subseteq RepeatSeqs

(***************************************************************************)
(* The end of a download, under SpecLive                                   *)
(***************************************************************************)
\* C36: when ticks keep occurring (all the ticks followed do occur), the
\* ground station is silent after its first messages and queued transients
\* are transmitted, a mission FSM that is not Inactive eventually is.
C36_MissionFsmReturns ==
    <>(nodeSystemTime = LiveTicks)
        => ((missionProtocolState # "INACTIVE") ~> (missionProtocolState = "INACTIVE"))

\* The FSM is back in Inactive after a download that transmitted both items
\* and had a transient deferred.
C36_Witness ==
    /\ missionProtocolState = "INACTIVE"
    /\ currentMission = 2
    /\ transients = <<>>
    /\ nodeSystemTime = LiveTicks

(***************************************************************************)
(* The announced count and the store, under SpecMission                    *)
(***************************************************************************)
\* C37: once the items of an upload of announced count C are all stored, a
\* further MISSION_ITEM is not appended: the store stays as it is.
C37_NoAppendBeyondCount ==
    [][(op'.name = "MISSION_ITEM" /\ upload.active /\ Len(mList) = upload.count)
          => mList' = mList]_vars

\* C38: in manual mode a count announcement of 0 is answered with the error
\* acknowledgment alone, one of more items than the store holds with the
\* no-space acknowledgment alone, and either leaves the store empty.
C38_RejectedCountClears ==
    [][(op'.name = "MISSION_COUNT" /\ ~IS_AUTONOMOUS(nodeStatus)
           /\ (op'.a = 0 \/ op'.a > MaxMissions))
          => /\ out' = <<Msg(IF op'.a = 0 THEN "MISSION_ACK_ERROR"
                                         ELSE "MISSION_ACK_NO_SPACE", 0, 0, 0)>>
             /\ mList' = <<>>
             /\ currentMissionIndex' = -1]_vars

\* A count announcement of more items than the store holds has been rejected
\* in manual mode.
C38_Witness ==
    /\ op.name = "MISSION_COUNT"
    /\ op.a > MaxMissions
    /\ ~IS_AUTONOMOUS(nodeStatus)
    /\ out = <<Msg("MISSION_ACK_NO_SPACE", 0, 0, 0)>>
    /\ mList = <<>>

(***************************************************************************)
(* MISSION_CLEAR_ALL, under SpecClear                                      *)
(***************************************************************************)
\* C39: MISSION_CLEAR_ALL empties the store, is answered with the accepted
\* acknowledgment alone, and leaves the mission FSM, the parameter FSM and
\* the queued transients as they are, in either mode and in any protocol state.
C39_ClearAllAlways ==
    [][op'.name = "MISSION_CLEAR_ALL"
          => /\ mList' = <<>>
             /\ out' = <<Msg("MISSION_ACK_ACCEPTED", 0, 0, 0)>>
             /\ UNCHANGED <<missionFsmVars, paramVars, transients, nodeStatus>>]_vars

\* The store has been cleared in autonomous mode, after a count announcement,
\* during a download and a parameter stream.
C39_Witness ==
    /\ op.name = "MISSION_CLEAR_ALL"
    /\ IS_AUTONOMOUS(nodeStatus)
    /\ mavlinkNewMissionListSize \in 1..MaxMissions
    /\ missionProtocolState # "INACTIVE"
    /\ parameterProtocolState # "INACTIVE"
    /\ mList = <<>>

====
